---- MODULE Spec2Model ----
(***************************************************************************)
(* A model of the chat-bot front end gjnave/mom: the MsgNode cache with    *)
(* its per-node asyncio.Lock, the context chain walker, the streaming      *)
(* response renderer, the eviction sweep and the plugin hook dispatch of   *)
(* the bot entry points llmcord.py and llmcord_ollama.py.                  *)
(*                                                                         *)
(* The bot is a single-threaded asyncio program: one on_message coroutine  *)
(* per inbound message, interleaved only at suspension points (an await    *)
(* on the network, on a plugin hook, on a contended lock).  An action of   *)
(* the model is the code one coroutine runs from one suspension point to   *)
(* the next.                                                               *)
(***************************************************************************)
EXTENDS Integers, Sequences, FiniteSets, TLC

\* ------------------------------------------------------------------ bounds
\* on_message invocations the model has room for, and how many of them run
\* concurrently under Spec
NumLoops == 3
SpecLoops == 2
\* messages (inbound, placeholders, notices) the channel ever holds
MaxId == 5
\* MsgNode objects ever created for one message identifier
MaxGen == 2
\* the cache capacity, scaled from the program's 100 so that a sweep has victims
MAX_MESSAGE_NODES == 2
\* config max_messages: the history fetch limit
MAX_MESSAGES == 2
\* outbound segments of one reply (len(response_contents))
MaxSegments == 2
\* plugin files in mods/
MaxFiles == 2
\* image attachments offered to the process_attachment hooks for one message
MaxAtt == 2
\* the most characters of one outbound segment, scaled from the program's 4094
MAX_MESSAGE_LENGTH == 3
\* chunks of one token stream
MaxTokens == 3
\* seconds that pass while one reply is rendered
MaxTime == 2
\* llmcord.py 60
EDIT_DELAY_SECONDS == 1
\* config max_text: the most characters of the text of one turn
MAX_TEXT == 4
\* messages of one backward chain, the start message included
MaxChain == 4
\* messages before a start message that is not a reply
MaxScan == 3
\* llmcord.py 70 (50 there): every SPEAK_EVERY_TURNS-th message is answered unprompted
SPEAK_EVERY_TURNS == 2
\* messages received while the periodic trigger is watched
MaxArrivals == 3
\* "!converse" commands accepted, and the most exchanges one may ask for (llmcord.py
\* 245: 10 there)
MaxConv == 2
MaxExchanges == 2

\* add_short_term calls made for one user, and the entries short_term keeps
\* (memory.py 31: 10 there)
MaxCalls == 3
MAX_SHORT_TERM_MESSAGES == 2

Loops == 1..NumLoops
Ids == 1..MaxId

VARIABLES
    channel,      \* the channel: channel[id] is the message with identifier id
    msg_nodes,    \* the cache: msg_nodes[id] = 0 (no key) or the generation cached for id
    heap,         \* heap[id]: every MsgNode object ever created for id, by generation
    loop,         \* loop[p]: the locals of on_message invocation p and where it is suspended
    plugin_hooks, \* the hook registry built by load_plugins
    run           \* the hook dispatch of on_ready and of one on_message at a time

vars == <<channel, msg_nodes, heap, loop, plugin_hooks, run>>

\* ---------------------------------------------------------------- MsgNode
\* llmcord.py 83-91: a fresh MsgNode; data is "none" (the empty dict), "turn" (a turn
\* computed by the normalizer) or "final" (the full response the renderer assigned);
\* lock is 0 or the loop that holds it, waiters the FIFO of asyncio.Lock;
\* computed counts the normalizations of this node.
MsgNode == [data |-> "none", next_msg |-> 0, fetch_next_failed |-> FALSE,
            lock |-> 0, waiters |-> <<>>, computed |-> 0]

\* The cache and the heap as one value G = [mn, h], threaded through the helpers.
Cache == [mn |-> msg_nodes, h |-> heap]

\* dict.setdefault(id, MsgNode()): the cached node, or a fresh one put under id
setdefault(G, id) ==
    IF G.mn[id] # 0 THEN G
    ELSE [mn |-> [G.mn EXCEPT ![id] = Len(G.h[id]) + 1],
          h  |-> [G.h EXCEPT ![id] = Append(@, MsgNode)]]

\* msg_nodes[id] = MsgNode(): a fresh node replaces whatever is under id
assign_node(G, id) ==
    [mn |-> [G.mn EXCEPT ![id] = Len(G.h[id]) + 1],
     h  |-> [G.h EXCEPT ![id] = Append(@, MsgNode)]]

\* asyncio.Lock: acquire on a free lock takes it without suspending; on a held lock
\* the caller joins the waiters; release hands the lock to the first waiter.
\* a faulty lock that is never found held
lock_never_held(G, id, g) == TRUE
lock_free(G, id, g) == G.h[id][g].lock = 0
lock_acquire(G, id, g, p) == [G EXCEPT !.h[id][g].lock = p]
lock_enqueue(G, id, g, p) == [G EXCEPT !.h[id][g].waiters = Append(@, p)]
lock_release(G, id, g) ==
    IF G.h[id][g].waiters = <<>>
    THEN [G EXCEPT !.h[id][g].lock = 0]
    ELSE [G EXCEPT !.h[id][g].lock = Head(G.h[id][g].waiters),
                   !.h[id][g].waiters = Tail(@)]

Bounded(G) == \A id \in Ids : Len(G.h[id]) <= MaxGen

\* the keys of the cache, and the k lowest of a set of identifiers in ascending order
Keys(G) == {id \in Ids : G.mn[id] # 0}
Min(S) == CHOOSE x \in S : \A y \in S : x <= y
RECURSIVE Lowest(_, _)
Lowest(S, k) ==
    IF k <= 0 \/ S = {} THEN <<>> ELSE <<Min(S)>> \o Lowest(S \ {Min(S)}, k - 1)

\* ------------------------------------------------------------ load_plugins
HookNames == {"on_bot_ready", "on_message_received", "process_attachment",
              "before_llm_call", "after_llm_response"}

\* The plugin modules of the repository (mods/ and hidemods/) by the hooks each defines.
Modules ==
    [facial_recognition |-> {"on_bot_ready", "on_message_received"},
     memory             |-> {"on_bot_ready", "on_message_received", "before_llm_call"},
     plugin_template    |-> HookNames,
     vision_caption     |-> {"process_attachment"},
     whisper            |-> {"on_bot_ready", "on_message_received"},
     voice_channel      |-> {"on_bot_ready", "on_message_received", "after_llm_response"},
     voice_tts          |-> {"on_bot_ready", "after_llm_response"},
     local_plugin       |-> {}]

\* The `commands` table of each module: the names it registers.  local_plugin is a
\* plugin of the installation written after plugin_template.py 21-36, whose table
\* names its one command with a capital letter.
Commands ==
    [facial_recognition |-> {"setimage", "listfaces", "matchimage", "matchface",
                             "deleteimage"},
     memory             |-> {"helpmemory", "memhelp", "setfact", "setglobal", "remember",
                             "rememberglobal", "myprofile", "profile", "global",
                             "forget", "memorystats", "memstats", "cc", "clearcontext",
                             "deleteprofile", "dp", "deleteglobal", "profilemod",
                             "clearcontextmod", "ccmod"},
     plugin_template    |-> {"hello", "plugininfo"},
     vision_caption     |-> {},
     whisper            |-> {"transcribe"},
     voice_channel      |-> {"join", "leave"},
     voice_tts          |-> {"voice", "speak", "setvoice", "voices"},
     local_plugin       |-> {"Hello"}]

\* the keys of plugin_hooks: the extension points and the command table
HookKeys == HookNames \cup {"custom_commands"}

\* llmcord.py 96-137: every module file, in the order glob yields them, appends its
\* hooks to the lists of plugin_hooks and stores its commands in the command table
\* under the names of its `commands` dict, as they are written (126); files is that
\* order.  A command is known by the module that registered it.
RECURSIVE load_plugins(_)
load_plugins(files) ==
    IF files = <<>>
    THEN [h \in HookKeys |-> IF h = "custom_commands" THEN [n \in {} |-> "none"] ELSE <<>>]
    ELSE LET rest == load_plugins(SubSeq(files, 1, Len(files) - 1))
             last == files[Len(files)]
             table == rest["custom_commands"]
         IN [h \in HookKeys |->
                IF h = "custom_commands"
                THEN [n \in DOMAIN table \cup Commands[last] |->
                         IF n \in Commands[last] THEN last ELSE table[n]]
                ELSE IF h \in Modules[last] THEN Append(rest[h], last) ELSE rest[h]]

\* the files of mods/ as the repository ships them
RepoMods == <<"facial_recognition", "memory", "plugin_template", "vision_caption", "whisper">>

\* ------------------------------------------------- llmcord.py: chain walker
\* llmcord.py 309-311, 421-424: normalizing a message suspends (with the node's lock
\* held) only when an image attachment is offered to a process_attachment hook
NeedsHook(id) == channel[id].img /\ plugin_hooks["process_attachment"] # <<>>

\* llmcord.py 302-343, 408-463: `if not node.data:` compute the turn under the lock
store_turn(G, id, g) ==
    [G EXCEPT !.h[id][g].data = "turn", !.h[id][g].computed = @ + 1]

populate(G, id, g) ==
    IF G.h[id][g].data = "none" THEN store_turn(G, id, g) ELSE G

RECURSIVE Walk(_, _, _), Visit(_, _, _, _), InGuard(_, _, _), Leave(_, _, _)

\* llmcord.py 295-406: the next message of the walk; runs to the next suspension.
\* In "reply" mode the loop follows current_msg.reference (a fetch suspends), in
\* "hist" mode it iterates the fetched history, then it turns to new_msg itself.
Walk(G, p, l) ==
    IF l.mode = "reply"
    THEN IF channel[l.current_msg].ref # 0
         THEN [G |-> G, l |-> [l EXCEPT !.pc = "fetch"]]
         ELSE Visit(G, p, [l EXCEPT !.mode = "curr"], l.new_msg)
    ELSE IF l.hist # <<>>
         THEN Visit(G, p, [l EXCEPT !.hist = Tail(@)], Head(l.hist))
         ELSE Visit(G, p, [l EXCEPT !.mode = "curr"], l.new_msg)

\* llmcord.py 300-301, 358-359, 406-407: node = msg_nodes.setdefault(id, MsgNode());
\* async with node.lock
Visit(G, p, l, id) ==
    LET S == setdefault(G, id)
        g == S.mn[id]
        l1 == [l EXCEPT !.node = id, !.gen = g]
    IN IF lock_free(S, id, g)
       THEN InGuard(lock_acquire(S, id, g, p), p, l1)
       ELSE [G |-> lock_enqueue(S, id, g, p), l |-> [l1 EXCEPT !.pc = "lockwait"]]

\* the body of the `async with`: awaits the hooks when it has to normalize an image
InGuard(G, p, l) ==
    IF G.h[l.node][l.gen].data = "none" /\ NeedsHook(l.node)
    THEN [G |-> G, l |-> [l EXCEPT !.pc = "hook"]]
    ELSE Leave(populate(G, l.node, l.gen), p, l)

\* the end of the `async with`: release, then on with the walk, or to the model call
\* (llmcord.py 474-491: the before_llm_call hooks, then the stream)
Leave(G, p, l) ==
    LET G1 == lock_release(G, l.node, l.gen)
    IN IF l.mode = "reply" THEN Walk(G1, p, [l EXCEPT !.current_msg = l.node])
       ELSE IF l.mode = "hist" THEN Walk(G1, p, l)
       ELSE [G |-> G1, l |-> [l EXCEPT !.pc = "stream"]]

\* llmcord.py 352: channel.history(before=new_msg, limit=MAX_MESSAGES), newest first
RECURSIVE history(_, _)
history(before, limit) ==
    IF limit = 0 \/ before <= 1 THEN <<>>
    ELSE <<before - 1>> \o history(before - 1, limit - 1)

\* ------------------------------------------ llmcord.py: finalization, sweep
\* llmcord.py 573-575: for msg in response_msgs: node.data = data; node.lock.release().
\* ok is FALSE when a step raises (KeyError on a missing key, RuntimeError on a
\* release of a lock that is not held).
\* a faulty finalization that stops after the first outbound message
Finalize_FirstOnly(G, ms) ==
    IF ms = <<>> \/ G.mn[Head(ms)] = 0 THEN [G |-> G, ok |-> TRUE]
    ELSE [G |-> lock_release([G EXCEPT !.h[Head(ms)][G.mn[Head(ms)]].data = "final"],
                             Head(ms), G.mn[Head(ms)]),
          ok |-> TRUE]

RECURSIVE Finalize(_, _)
Finalize(G, ms) ==
    IF ms = <<>> THEN [G |-> G, ok |-> TRUE]
    ELSE LET id == Head(ms)
             g == G.mn[id]
         IN IF g = 0 THEN [G |-> G, ok |-> FALSE]
            ELSE IF G.h[id][g].lock = 0
                 THEN [G |-> [G EXCEPT !.h[id][g].data = "final"], ok |-> FALSE]
                 ELSE Finalize(lock_release([G EXCEPT !.h[id][g].data = "final"], id, g),
                               Tail(ms))

\* a faulty slice that takes one victim too many
Victims_OneMore(G) ==
    IF Cardinality(Keys(G)) > MAX_MESSAGE_NODES
    THEN Lowest(Keys(G), Cardinality(Keys(G)) - MAX_MESSAGE_NODES + 1)
    ELSE <<>>

\* llmcord.py 577-578: the victims, sorted(msg_nodes.keys())[:num_nodes - MAX_MESSAGE_NODES]
Victims(G) ==
    IF Cardinality(Keys(G)) > MAX_MESSAGE_NODES
    THEN Lowest(Keys(G), Cardinality(Keys(G)) - MAX_MESSAGE_NODES)
    ELSE <<>>

\* llmcord.py 578-580: for msg_id in victims: async with
\* msg_nodes.setdefault(msg_id, MsgNode()).lock: del msg_nodes[msg_id].  Runs until
\* a victim's lock is held by another coroutine, where the sweep suspends.
RECURSIVE Sweep(_, _, _)
Sweep(G, p, l) ==
    IF l.victims = <<>> THEN [G |-> G, l |-> [l EXCEPT !.pc = "done", !.node = 0, !.gen = 0]]
    ELSE LET id == Head(l.victims)
             S == setdefault(G, id)
             g == S.mn[id]
         IN IF lock_free(S, id, g)
            THEN Sweep([S EXCEPT !.mn[id] = 0], p, [l EXCEPT !.victims = Tail(@)])
            ELSE [G |-> lock_enqueue(S, id, g, p),
                  l |-> [l EXCEPT !.pc = "sweepwait", !.node = id, !.gen = g]]

\* ------------------------------------------------------ llmcord.py: actions
\* the locals of an on_message invocation that has not started: node/gen the node
\* whose guarded section it is at, next/ngen the next_node it polls
\* (llmcord_ollama.py 345), chain len(reply_chain), failed whether the model call,
\* the stream or a send of the renderer raised, notices the failure notices sent
Idle == [pc |-> "idle", new_msg |-> 0, current_msg |-> 0, node |-> 0, gen |-> 0,
         next |-> 0, ngen |-> 0, chain |-> 0,
         mode |-> "none", hist |-> <<>>, sent |-> 0, response_msgs |-> <<>>,
         response_contents |-> 0, victims |-> <<>>, failed |-> FALSE, notices |-> 0]

Commit(p, R) ==
    /\ Bounded(R.G)
    /\ msg_nodes' = R.G.mn
    /\ heap' = R.G.h
    /\ loop' = [loop EXCEPT ![p] = R.l]

\* A user sends a message (a reply to ref or, with ref = 0, to nothing; with an image
\* or not) that triggers the bot: on_message starts and runs to the first fetch of
\* the walk (llmcord.py 192-299, 351-352).
ArriveWith(p, ref, img) ==
    /\ loop[p].pc = "idle"
    /\ \A q \in Loops : q < p => loop[q].pc # "idle"
    /\ Len(channel) < MaxId
    /\ ref <= Len(channel)
    /\ channel' = Append(channel, [bot |-> FALSE, ref |-> ref, img |-> img])
    /\ loop' = [loop EXCEPT ![p] =
          [Idle EXCEPT !.new_msg = Len(channel) + 1,
                       !.current_msg = Len(channel) + 1,
                       !.mode = IF ref # 0 THEN "reply" ELSE "hist",
                       !.pc = IF ref # 0 THEN "fetch" ELSE "history"]]
    /\ UNCHANGED <<msg_nodes, heap, plugin_hooks, run>>

Arrive(p) == \E ref \in 0..Len(channel), img \in BOOLEAN : ArriveWith(p, ref, img)

\* llmcord.py 299-301: the referenced message is fetched; the walk visits its node
FetchDone(p) ==
    /\ loop[p].pc = "fetch"
    /\ Commit(p, Visit(Cache, p, loop[p], channel[loop[p].current_msg].ref))
    /\ UNCHANGED <<channel, plugin_hooks, run>>

\* llmcord.py 347-349, 406: the fetch raises discord.NotFound: the walk ends there
FetchFail(p) ==
    /\ loop[p].pc = "fetch"
    /\ Commit(p, Visit(Cache, p, [loop[p] EXCEPT !.mode = "curr"], loop[p].new_msg))
    /\ UNCHANGED <<channel, plugin_hooks, run>>

\* llmcord.py 352-357: the history arrives; the walk breaks at the first message
\* older than 300 s, so it iterates a prefix of it
HistoryFetched(p) ==
    /\ loop[p].pc = "history"
    /\ LET all == history(loop[p].new_msg, MAX_MESSAGES)
       IN \E k \in 0..Len(all) :
             Commit(p, Walk(Cache, p, [loop[p] EXCEPT !.hist = SubSeq(all, 1, k)]))
    /\ UNCHANGED <<channel, plugin_hooks, run>>

\* the lock a walker waited for is handed to it
LockResume(p) ==
    /\ loop[p].pc = "lockwait"
    /\ heap[loop[p].node][loop[p].gen].lock = p
    /\ Commit(p, InGuard(Cache, p, loop[p]))
    /\ UNCHANGED <<channel, plugin_hooks, run>>

\* llmcord.py 313-343: the process_attachment hooks have returned; the turn is stored
HookReturn(p) ==
    /\ loop[p].pc = "hook"
    /\ Commit(p, Leave(store_turn(Cache, loop[p].node, loop[p].gen), p, loop[p]))
    /\ UNCHANGED <<channel, plugin_hooks, run>>

\* llmcord.py 491, 557-559: the model call or the stream raises
StreamRaise(p) ==
    /\ loop[p].pc = "stream"
    /\ loop' = [loop EXCEPT ![p].pc = "notice", ![p].failed = TRUE]
    /\ UNCHANGED <<channel, msg_nodes, heap, plugin_hooks, run>>

\* llmcord.py 491-527: the loop awaits the model call and then each chunk.  The
\* first chunk opens the first segment, a later one opens a new segment when it would
\* overflow the current one; the loop then awaits the send of a placeholder.  (A
\* chunk that fits is appended and the loop awaits the next: no change here.)
Chunk(p) ==
    /\ loop[p].pc = "stream"
    /\ loop[p].response_contents < MaxSegments
    /\ loop' = [loop EXCEPT ![p].response_contents = @ + 1, ![p].pc = "send"]
    /\ UNCHANGED <<channel, msg_nodes, heap, plugin_hooks, run>>

\* llmcord.py 491, 561: the stream is exhausted
StreamEnd(p) ==
    /\ loop[p].pc = "stream"
    /\ loop' = [loop EXCEPT ![p].pc = "after"]
    /\ UNCHANGED <<channel, msg_nodes, heap, plugin_hooks, run>>

\* llmcord.py 501, 507, 517, 522: the placeholder now exists in the channel; the
\* coroutine that sent it has not resumed yet
SendCreated(p) ==
    /\ loop[p].pc = "send"
    /\ Len(channel) < MaxId
    /\ channel' = Append(channel, [bot |-> TRUE, ref |-> 0, img |-> FALSE])
    /\ loop' = [loop EXCEPT ![p].sent = Len(channel) + 1, ![p].pc = "sent"]
    /\ UNCHANGED <<msg_nodes, heap, plugin_hooks, run>>

\* llmcord.py 501, 557: the send raises
SendFail(p) ==
    /\ loop[p].pc = "send"
    /\ loop' = [loop EXCEPT ![p].pc = "notice", ![p].failed = TRUE]
    /\ UNCHANGED <<channel, msg_nodes, heap, plugin_hooks, run>>

\* llmcord.py 502-505, 513-527: send returned: msg_nodes[response_msg.id] = MsgNode();
\* await lock.acquire() (a fresh lock: no suspension); response_msgs.append.  The
\* first chunk may overflow the segment just opened (split).
Register(p) ==
    /\ loop[p].pc = "sent"
    /\ \E split \in BOOLEAN :
        LET id == loop[p].sent
            A == assign_node(Cache, id)
            l1 == [loop[p] EXCEPT !.sent = 0, !.response_msgs = Append(@, id)]
        IN Commit(p, [G |-> lock_acquire(A, id, A.mn[id], p),
                      l |-> IF split /\ l1.response_contents = 1 /\ MaxSegments > 1
                            THEN [l1 EXCEPT !.response_contents = 2, !.pc = "send"]
                            ELSE [l1 EXCEPT !.pc = "stream"]])
    /\ UNCHANGED <<channel, plugin_hooks, run>>

\* llmcord.py 559: the failure notice is sent
NoticeSent(p) ==
    /\ loop[p].pc = "notice"
    /\ Len(channel) < MaxId
    /\ channel' = Append(channel, [bot |-> TRUE, ref |-> 0, img |-> FALSE])
    /\ loop' = [loop EXCEPT ![p].pc = "after", ![p].notices = @ + 1]
    /\ UNCHANGED <<msg_nodes, heap, plugin_hooks, run>>

\* llmcord.py 559: the send of the failure notice raises too: on_message ends with
\* that exception
NoticeFail(p) ==
    /\ loop[p].pc = "notice"
    /\ loop' = [loop EXCEPT ![p].pc = "crashed"]
    /\ UNCHANGED <<channel, msg_nodes, heap, plugin_hooks, run>>

\* llmcord.py 563-580: the after_llm_response hooks have returned; the response
\* nodes get their data and are released; the sweep starts
AfterHooks(p) ==
    /\ loop[p].pc = "after"
    /\ LET F == Finalize(Cache, loop[p].response_msgs)
       IN IF F.ok
          THEN Commit(p, Sweep(F.G, p, [loop[p] EXCEPT !.victims = Victims(F.G)]))
          ELSE Commit(p, [G |-> F.G, l |-> [loop[p] EXCEPT !.pc = "crashed"]])
    /\ UNCHANGED <<channel, plugin_hooks, run>>

\* llmcord.py 579-580: the victim's lock is handed to the sweep: del msg_nodes[msg_id]
\* (KeyError when the key is gone; the `async with` releases the lock either way)
SweepResume(p) ==
    /\ loop[p].pc = "sweepwait"
    /\ heap[loop[p].node][loop[p].gen].lock = p
    /\ LET id == loop[p].node
           R == lock_release(Cache, id, loop[p].gen)
       IN IF msg_nodes[id] = 0
          THEN Commit(p, [G |-> R, l |-> [loop[p] EXCEPT !.pc = "crashed"]])
          ELSE Commit(p, Sweep([R EXCEPT !.mn[id] = 0], p,
                               [loop[p] EXCEPT !.victims = Tail(@)]))
    /\ UNCHANGED <<channel, plugin_hooks, run>>

\* --------------------------------------------------- llmcord.py: hook dispatch
\* faulty hook loops: one that an exception ends, one that None ends, one that takes
\* an empty dict for a result
keeps_going_StopOnRaise(ext, out) == out \notin {"raise", "false", "caption", "image_data"}
keeps_going_StopOnNone(ext, out) ==
    IF ext = "on_message_received" THEN out \notin {"false", "none"}
    ELSE out \notin {"caption", "image_data"}
keeps_going_EmptyCounts(ext, out) ==
    IF ext = "process_attachment" THEN out \notin {"empty", "caption", "image_data"}
    ELSE out # "false"

\* Whether the loop over the hooks of ext goes on to the next hook after a call
\* that came to out.  llmcord.py 201-209: `if result is False: ... break`;
\* 311-322, 424-440: `if result: ... break`; an exception is logged inside the loop;
\* 152-156, 476-480, 563-567: no break.
keeps_going(ext, out) ==
    CASE ext = "on_message_received" -> out # "false"
      [] ext = "process_attachment" -> out \notin {"caption", "image_data"}
      [] OTHER -> TRUE

\* the dispatch before on_ready: ext is the extension point whose hooks are (or were
\* last) called, i the hook awaited, calls the calls made at ext, tried the
\* process_attachment calls of the message, att the attachment at hand, did the
\* stages on_message has been through, triggers whether the message meets the
\* trigger condition and the filters of llmcord.py 258-283
Boot == [pc |-> "boot", ext |-> "none", i |-> 0, calls |-> <<>>, tried |-> <<>>,
         kind |-> "none", natt |-> 0, att |-> 0, did |-> {}, messages |-> <<>>,
         words |-> <<>>, invoked |-> <<>>, err |-> "none", triggers |-> FALSE]

\* a faulty on_message that answers whatever does not start with "//" or "!"
kind_of_AnswersAll(starts, triggers) ==
    IF starts = "//" THEN "ignored"
    ELSE IF starts = "!" THEN "command" ELSE "chat"

\* What on_message does with a message after the on_message_received hooks.
\* llmcord.py 214-215: `if new_msg.content.startswith("//"): return`; 217-256: a
\* message that starts with "!" takes the command path and returns; 258-283: a
\* message that meets no trigger (mention, name, reply to the bot, every
\* SPEAK_EVERY_TURNS-th message) or fails a channel or role filter returns; any
\* other message is answered.
kind_of(starts, triggers) ==
    IF starts = "//" THEN "ignored"
    ELSE IF starts = "!" THEN "command"
         ELSE IF triggers THEN "chat" ELSE "ignored"

\* str.lower() on the words a message may hold after the trigger character
lower(w) == IF w \in {"Hello", "HELLO"} THEN "hello" ELSE w

\* new_msg.content[1:].split() of the messages that start with "!": nothing after
\* the trigger character, or a first word ("new" for a message that starts with
\* "!new", the prefix llmcord.py 268 looks for)
Words == {<<>>, <<"hello">>, <<"HELLO">>, <<"plugins">>, <<"nosuch">>, <<"new">>}

\* llmcord.py 217-256: the message starts with "!".  218: the first word after the
\* trigger character, lower-cased (an IndexError when there is none); 221-223: a
\* name of the command table is awaited with (new_msg, str(new_msg.author.id));
\* 230-238: !plugins sends the list of plugins; 256: any other name returns.
command_path(r) ==
    IF r.words = <<>> THEN [r EXCEPT !.pc = "crashed", !.err = "IndexError"]
    ELSE LET command == lower(r.words[1])
         IN IF command \in DOMAIN plugin_hooks["custom_commands"]
            THEN [r EXCEPT !.pc = "command", !.did = @ \cup {"command"},
                           !.invoked = Append(@,
                               [name |-> command,
                                func |-> plugin_hooks["custom_commands"][command],
                                args |-> <<"new_msg", "str(author.id)">>,
                                out |-> "pending"])]
            ELSE IF command = "plugins"
                 THEN [r EXCEPT !.pc = "builtin", !.did = @ \cup {"builtin"}]
                 ELSE [r EXCEPT !.pc = "ended", !.did = @ \cup {"builtin"}]

\* llmcord.py 474: messages = ([get_system_prompt()] + conversation_history)[:...],
\* the list the before_llm_call hooks start from
Assembled == <<"system", "turn">>

\* What a before_llm_call hook hands back when it is passed the list ms: nothing
\* (None, or an exception), an empty list, the list it was passed, or a list of
\* its own (here ms with the hook's name added, so that the order shows)
before_result(ms, hook, out) ==
    [none |-> out \in {"none", "raise"},
     list |-> CASE out = "changed" -> Append(ms, hook)
                [] out = "same" -> ms
                [] OTHER -> <<>>]

\* llmcord.py 478: messages = await hook(messages, new_msg) or messages; an
\* exception (479) leaves messages as it was
threaded(ms, hook, out) ==
    LET res == before_result(ms, hook, out)
    IN IF ~res.none /\ res.list # <<>> THEN res.list ELSE ms

RECURSIVE Dispatch(_, _), Continue(_)

\* `for hook in plugin_hooks[ext]:` up to the await of the first hook
Dispatch(r, ext) ==
    LET r1 == [r EXCEPT !.ext = ext, !.i = 1, !.calls = <<>>]
    IN IF plugin_hooks[ext] = <<>> THEN Continue([r1 EXCEPT !.i = 0])
       ELSE [r1 EXCEPT !.pc = "hook"]

\* What follows the loop over the hooks of r.ext.  llmcord.py 158: on_ready is over;
\* 214-283: the message is ignored, or a command runs, or (295-463) the walk starts
\* and offers each image attachment to the process_attachment hooks; 476: the
\* before_llm_call hooks; 489: the model call; 569-580: on_message is over.
Continue(r) ==
    CASE r.ext = "on_bot_ready" -> [r EXCEPT !.pc = "idle"]
      [] r.ext = "on_message_received" ->
            IF r.kind = "ignored" THEN [r EXCEPT !.pc = "ended"]
            ELSE IF r.kind = "command" THEN command_path(r)
                 ELSE Continue([r EXCEPT !.ext = "process_attachment", !.att = 0,
                                         !.i = 0, !.did = @ \cup {"walk"}])
      [] r.ext = "process_attachment" ->
            IF r.att < r.natt
            THEN IF plugin_hooks["process_attachment"] = <<>>
                 THEN Continue([r EXCEPT !.att = @ + 1])
                 ELSE [r EXCEPT !.att = @ + 1, !.i = 1, !.pc = "hook"]
            ELSE Dispatch([r EXCEPT !.messages = Assembled], "before_llm_call")
      [] r.ext = "before_llm_call" -> [r EXCEPT !.pc = "model", !.did = @ \cup {"model"}]
      [] OTHER -> [r EXCEPT !.pc = "ended"]

\* the awaited hook of r.ext comes to out: the call is recorded, then the loop goes
\* on to the next hook, or is left by its break (llmcord.py 205-212: with
\* stop_processing set, on_message returns), or is over
Returned(r, out) ==
    LET hooks == plugin_hooks[r.ext]
        call == [hook |-> hooks[r.i], out |-> out, att |-> r.att]
        r1 == IF r.ext = "process_attachment"
              THEN [r EXCEPT !.tried = Append(@, call)]
              ELSE IF r.ext = "before_llm_call"
                   THEN [r EXCEPT !.calls = Append(@, call),
                                  !.messages = threaded(@, hooks[r.i], out)]
                   ELSE [r EXCEPT !.calls = Append(@, call)]
    IN IF ~keeps_going(r.ext, out)
       THEN IF r.ext = "on_message_received" THEN [r1 EXCEPT !.pc = "ended"]
            ELSE Continue(r1)
       ELSE IF r.i < Len(hooks) THEN [r1 EXCEPT !.i = @ + 1]
            ELSE Continue(r1)

\* llmcord.py 147-158: on_ready calls the on_bot_ready hooks
Ready ==
    /\ run.pc = "boot"
    /\ run' = Dispatch(run, "on_bot_ready")
    /\ UNCHANGED <<channel, msg_nodes, heap, loop, plugin_hooks>>

\* llmcord.py 192-203: a message arrives (one the bot ignores, a registered
\* !command, or one it answers, with some image attachments along its chain): the
\* on_message_received hooks are called
Received ==
    /\ run.pc \in {"idle", "ended", "crashed"}
    /\ \/ \E starts \in {"//", "text"}, triggers \in BOOLEAN, natt \in 0..MaxAtt :
             run' = Dispatch([Boot EXCEPT !.kind = kind_of(starts, triggers),
                                          !.triggers = triggers, !.natt = natt],
                             "on_message_received")
       \/ \E words \in Words, triggers \in BOOLEAN :
             run' = Dispatch([Boot EXCEPT !.kind = kind_of("!", triggers),
                                          !.triggers = triggers, !.words = words],
                             "on_message_received")
    /\ UNCHANGED <<channel, msg_nodes, heap, loop, plugin_hooks>>

\* llmcord.py 221-227: the awaited command returns, and on_message with it; or it
\* raises, the exception is logged and the notice is sent
CustomCommand ==
    /\ run.pc = "command"
    /\ \E out \in {"returned", "raise"} :
          run' = [run EXCEPT !.invoked[Len(run.invoked)].out = out,
                             !.pc = IF out = "raise" THEN "oops" ELSE "ended"]
    /\ UNCHANGED <<channel, msg_nodes, heap, loop, plugin_hooks>>

\* llmcord.py 226-227: the notice of the failed command is sent and on_message
\* returns, or the send raises and on_message ends with that exception
OopsSent ==
    /\ run.pc = "oops"
    /\ \/ run' = [run EXCEPT !.pc = "ended", !.did = @ \cup {"oops"}]
       \/ run' = [run EXCEPT !.pc = "crashed", !.err = "HTTPException"]
    /\ UNCHANGED <<channel, msg_nodes, heap, loop, plugin_hooks>>

\* llmcord.py 230-238: the list of plugins is sent and on_message returns, or the
\* send raises
PluginsListed ==
    /\ run.pc = "builtin"
    /\ \/ run' = [run EXCEPT !.pc = "ended"]
       \/ run' = [run EXCEPT !.pc = "crashed", !.err = "HTTPException"]
    /\ UNCHANGED <<channel, msg_nodes, heap, loop, plugin_hooks>>

\* llmcord.py 152-156: an on_bot_ready hook returns or raises
BotReadyHook ==
    /\ run.pc = "hook" /\ run.ext = "on_bot_ready"
    /\ \E out \in {"returned", "raise"} : run' = Returned(run, out)
    /\ UNCHANGED <<channel, msg_nodes, heap, loop, plugin_hooks>>

\* llmcord.py 201-209: an on_message_received hook returns None, False or another
\* value, or raises
MessageReceivedHook ==
    /\ run.pc = "hook" /\ run.ext = "on_message_received"
    /\ \E out \in {"none", "false", "other", "raise"} : run' = Returned(run, out)
    /\ UNCHANGED <<channel, msg_nodes, heap, loop, plugin_hooks>>

\* llmcord.py 309-322, 421-440: a process_attachment hook returns None, an empty
\* dict, a dict with a caption or a dict with image_data, or raises
ProcessAttachmentHook ==
    /\ run.pc = "hook" /\ run.ext = "process_attachment"
    /\ \E out \in {"none", "empty", "caption", "image_data", "raise"} :
          run' = Returned(run, out)
    /\ UNCHANGED <<channel, msg_nodes, heap, loop, plugin_hooks>>

\* llmcord.py 476-480: a before_llm_call hook returns None, an empty list, the list
\* it was passed or another list, or raises
BeforeLlmCallHook ==
    /\ run.pc = "hook" /\ run.ext = "before_llm_call"
    /\ \E out \in {"none", "empty", "same", "changed", "raise"} :
          run' = Returned(run, out)
    /\ UNCHANGED <<channel, msg_nodes, heap, loop, plugin_hooks>>

\* llmcord.py 563-567: an after_llm_response hook returns or raises
AfterLlmResponseHook ==
    /\ run.pc = "hook" /\ run.ext = "after_llm_response"
    /\ \E out \in {"returned", "raise"} : run' = Returned(run, out)
    /\ UNCHANGED <<channel, msg_nodes, heap, loop, plugin_hooks>>

\* llmcord.py 489-563: the response is rendered, or the stream fails and the notice
\* is sent: the after_llm_response hooks are called; or the notice fails too and
\* on_message ends with that exception
Rendered ==
    /\ run.pc = "model"
    /\ \/ run' = Dispatch([run EXCEPT !.messages = <<>>], "after_llm_response")
       \/ run' = [run EXCEPT !.pc = "ended", !.ext = "none", !.messages = <<>>]
    /\ UNCHANGED <<channel, msg_nodes, heap, loop, plugin_hooks>>

\* llmcord.py 104: the plugin files in the order glob yields them
RECURSIVE Orders(_)
Orders(n) ==
    IF n = 0 THEN {<<>>}
    ELSE LET shorter == Orders(n - 1)
         IN shorter \cup {Append(f, m) : f \in {g \in shorter : Len(g) = n - 1},
                                         m \in DOMAIN Modules}

InitHooks ==
    /\ channel = <<>>
    /\ msg_nodes = [id \in Ids |-> 0]
    /\ heap = [id \in Ids |-> <<>>]
    /\ loop = [p \in Loops |-> Idle]
    /\ run = Boot
    /\ \E files \in Orders(MaxFiles) :
          /\ \A a, b \in 1..Len(files) : a # b => files[a] # files[b]
          /\ plugin_hooks = load_plugins(files)

NextHooks ==
    \/ Ready \/ Received \/ BotReadyHook \/ MessageReceivedHook
    \/ ProcessAttachmentHook \/ BeforeLlmCallHook \/ AfterLlmResponseHook \/ Rendered
    \/ CustomCommand \/ OopsSent \/ PluginsListed

SpecHooks == InitHooks /\ [][NextHooks]_vars

\* llmcord.py 154, 203, 312, 478, 565: `await hook(...)` has no timeout: when the
\* awaited hook never returns, the coroutine stays suspended in that await
HookHangs ==
    /\ run.pc = "hook"
    /\ run' = [run EXCEPT !.pc = "hung"]
    /\ UNCHANGED <<channel, msg_nodes, heap, loop, plugin_hooks>>

\* the bot with the plugins of mods/; the event loop runs whatever can run
InitHang ==
    /\ channel = <<>>
    /\ msg_nodes = [id \in Ids |-> 0]
    /\ heap = [id \in Ids |-> <<>>]
    /\ loop = [p \in Loops |-> Idle]
    /\ run = Boot
    /\ plugin_hooks = load_plugins(RepoMods)

NextHang == NextHooks \/ HookHangs

SpecHang == InitHang /\ [][NextHang]_vars /\ WF_vars(NextHang)

\* ------------------------------------------------------------ specification
Init ==
    /\ channel = <<>>
    /\ msg_nodes = [id \in Ids |-> 0]
    /\ heap = [id \in Ids |-> <<>>]
    /\ loop = [p \in Loops |-> Idle]
    /\ plugin_hooks = load_plugins(RepoMods)
    /\ run = Boot

Next ==
    \E p \in 1..SpecLoops :
        \/ Arrive(p) \/ FetchDone(p) \/ FetchFail(p) \/ HistoryFetched(p)
        \/ LockResume(p) \/ HookReturn(p)
        \/ StreamRaise(p) \/ Chunk(p) \/ StreamEnd(p)
        \/ SendCreated(p) \/ SendFail(p) \/ Register(p)
        \/ NoticeSent(p) \/ NoticeFail(p) \/ AfterHooks(p) \/ SweepResume(p)

Spec == Init /\ [][Next]_vars

\* ------------------------------------------------- llmcord.py: a burst of messages
\* Three messages sent in quick succession on a network without faults: an image
\* and two plain messages, none of them a reply.
Burst == <<[ref |-> 0, img |-> TRUE], [ref |-> 0, img |-> FALSE],
           [ref |-> 0, img |-> FALSE]>>

ArriveBurst(p) == p <= Len(Burst) /\ ArriveWith(p, Burst[p].ref, Burst[p].img)

NextSweep ==
    \E p \in Loops :
        \/ ArriveBurst(p) \/ HistoryFetched(p)
        \/ LockResume(p) \/ HookReturn(p)
        \/ Chunk(p) \/ StreamEnd(p) \/ SendCreated(p) \/ Register(p)
        \/ AfterHooks(p) \/ SweepResume(p)

SpecSweep == Init /\ [][NextSweep]_vars

\* ------------------------------------------------------- llmcord_ollama.py
RECURSIVE OIter(_, _, _), OGuard(_, _, _), OTail(_, _, _)

\* llmcord_ollama.py 294-297: while curr_msg and len(reply_chain) < MAX_MESSAGES:
\* curr_node = msg_nodes.setdefault(curr_msg.id, MsgNode()); async with curr_node.lock.
\* When the walk is over the loop goes on to the model call (372-385).
OIter(G, p, l) ==
    IF l.current_msg = 0 \/ l.chain >= MAX_MESSAGES
    THEN [G |-> G, l |-> [l EXCEPT !.pc = "stream", !.node = 0, !.gen = 0]]
    ELSE LET id == l.current_msg
             S == setdefault(G, id)
             g == S.mn[id]
             l1 == [l EXCEPT !.node = id, !.gen = g]
         IN IF lock_free(S, id, g)
            THEN OGuard(lock_acquire(S, id, g, p), p, l1)
            ELSE [G |-> lock_enqueue(S, id, g, p), l |-> [l1 EXCEPT !.pc = "lockwait"]]

\* llmcord_ollama.py 298-352: inside the lock: `if not curr_node.data:` the turn is
\* stored (327), then the predecessor is looked up with the lock still held: the
\* previous message of the channel (337, a history fetch) when the message is no
\* reply and does not mention the bot, the referenced message when it is a reply
\* (345-352: setdefault of its node, a poll of that node's lock, a fetch).
OGuard(G, p, l) ==
    LET id == l.node
        g == l.gen
        m == channel[id]
    IN IF G.h[id][g].data # "none" THEN OTail(G, p, l)
       ELSE LET G1 == store_turn(G, id, g)
            IN IF m.ref = 0 /\ ~m.mention
               THEN [G |-> G1, l |-> [l EXCEPT !.pc = "prev"]]
               ELSE IF m.ref # 0
                    THEN LET S == setdefault(G1, m.ref)
                             ng == S.mn[m.ref]
                         IN [G |-> S,
                             l |-> [l EXCEPT !.next = m.ref, !.ngen = ng,
                                             !.pc = IF lock_free(S, m.ref, ng)
                                                    THEN "ofetch" ELSE "spin"]]
                    ELSE OTail(G1, p, l)

\* llmcord_ollama.py 357-369: reply_chain += [curr_node.data];
\* curr_msg = curr_node.next_msg; the lock is released and the walk goes on
OTail(G, p, l) ==
    OIter(lock_release(G, l.node, l.gen), p,
          [l EXCEPT !.chain = @ + 1, !.current_msg = G.h[l.node][l.gen].next_msg,
                    !.next = 0, !.ngen = 0])

\* A user sends a message that names or mentions the bot (llmcord_ollama.py 263)
OArrive(p) ==
    /\ loop[p].pc = "idle"
    /\ \A q \in Loops : q < p => loop[q].pc # "idle"
    /\ Len(channel) < MaxId
    /\ \E ref \in 0..Len(channel), mention \in BOOLEAN :
          channel' = Append(channel, [bot |-> FALSE, ref |-> ref, mention |-> mention])
    /\ loop' = [loop EXCEPT ![p] = [Idle EXCEPT !.new_msg = Len(channel) + 1,
                                                !.current_msg = Len(channel) + 1,
                                                !.pc = "start"]]
    /\ UNCHANGED <<msg_nodes, heap, plugin_hooks, run>>

\* llmcord_ollama.py 245-297: on_message runs up to the first suspension of the walk
OStart(p) ==
    /\ loop[p].pc = "start"
    /\ Commit(p, OIter(Cache, p, loop[p]))
    /\ UNCHANGED <<channel, plugin_hooks, run>>

\* the lock a walker waited for is handed to it (llmcord_ollama.py 297)
OLockResume(p) ==
    /\ loop[p].pc = "lockwait"
    /\ heap[loop[p].node][loop[p].gen].lock = p
    /\ Commit(p, OGuard(Cache, p, loop[p]))
    /\ UNCHANGED <<channel, plugin_hooks, run>>

\* llmcord_ollama.py 337-341: the history fetch returns the previous message of the
\* channel; it becomes next_msg when it is by the same author (not by the bot)
OPrevFetched(p) ==
    /\ loop[p].pc = "prev"
    /\ LET id == loop[p].node
           prev == IF id > 1 /\ ~channel[id - 1].bot THEN id - 1 ELSE 0
       IN Commit(p, OTail([Cache EXCEPT !.h[id][loop[p].gen].next_msg = prev], p, loop[p]))
    /\ UNCHANGED <<channel, plugin_hooks, run>>

\* llmcord_ollama.py 346-347: while next_node.lock.locked(): await asyncio.sleep(0)
\* ends when the polled lock is free; the fetch of the referenced message follows
OSpinDone(p) ==
    /\ loop[p].pc = "spin"
    /\ heap[loop[p].next][loop[p].ngen].lock = 0
    /\ loop' = [loop EXCEPT ![p].pc = "ofetch"]
    /\ UNCHANGED <<channel, msg_nodes, heap, plugin_hooks, run>>

\* llmcord_ollama.py 348-352: curr_node.next_msg = await fetch_message(next_msg_id)
OFetchDone(p) ==
    /\ loop[p].pc = "ofetch"
    /\ Commit(p, OTail([Cache EXCEPT !.h[loop[p].node][loop[p].gen].next_msg = loop[p].next],
                       p, loop[p]))
    /\ UNCHANGED <<channel, plugin_hooks, run>>

\* llmcord_ollama.py 353-355: the fetch raises: curr_node.fetch_next_failed = True
OFetchFail(p) ==
    /\ loop[p].pc = "ofetch"
    /\ Commit(p, OTail([Cache EXCEPT !.h[loop[p].node][loop[p].gen].fetch_next_failed = TRUE],
                       p, loop[p]))
    /\ UNCHANGED <<channel, plugin_hooks, run>>

\* llmcord_ollama.py 385-410: a chunk that opens a new segment: the loop awaits the
\* reply that carries its placeholder
OChunk(p) ==
    /\ loop[p].pc = "stream"
    /\ loop[p].response_contents < MaxSegments
    /\ loop' = [loop EXCEPT ![p].response_contents = @ + 1, ![p].pc = "send"]
    /\ UNCHANGED <<channel, msg_nodes, heap, plugin_hooks, run>>

\* llmcord_ollama.py 396, 407: the placeholder, a reply to new_msg or to the last
\* segment, now exists in the channel
OSendCreated(p) ==
    /\ loop[p].pc = "send"
    /\ Len(channel) < MaxId
    /\ channel' = Append(channel,
          [bot |-> TRUE, mention |-> FALSE,
           ref |-> IF loop[p].response_msgs = <<>> THEN loop[p].new_msg
                   ELSE loop[p].response_msgs[Len(loop[p].response_msgs)]])
    /\ loop' = [loop EXCEPT ![p].sent = Len(channel) + 1, ![p].pc = "sent"]
    /\ UNCHANGED <<msg_nodes, heap, plugin_hooks, run>>

\* llmcord_ollama.py 397-410: msg_nodes[response_msg.id] = MsgNode(next_msg=new_msg);
\* await lock.acquire(); response_msgs += [response_msg]
ORegister(p) ==
    /\ loop[p].pc = "sent"
    /\ \E split \in BOOLEAN :
        LET id == loop[p].sent
            A == assign_node(Cache, id)
            g == A.mn[id]
            l1 == [loop[p] EXCEPT !.sent = 0, !.response_msgs = Append(@, id)]
        IN Commit(p, [G |-> lock_acquire([A EXCEPT !.h[id][g].next_msg = loop[p].new_msg],
                                         id, g, p),
                      l |-> IF split /\ l1.response_contents = 1 /\ MaxSegments > 1
                            THEN [l1 EXCEPT !.response_contents = 2, !.pc = "send"]
                            ELSE [l1 EXCEPT !.pc = "stream"]])
    /\ UNCHANGED <<channel, plugin_hooks, run>>

\* llmcord_ollama.py 474-481: an exception of the model call, the stream or a send
\* is logged by `except Exception`; the sweep follows at once
ORaise(p) ==
    /\ loop[p].pc \in {"stream", "send"}
    /\ Commit(p, Sweep(Cache, p, [loop[p] EXCEPT !.victims = Victims(Cache),
                                                 !.failed = TRUE]))
    /\ UNCHANGED <<channel, plugin_hooks, run>>

\* llmcord_ollama.py 444-481: the stream is exhausted: the response nodes get their
\* data and are released inside the try (an exception there is logged too), then
\* the sweep starts
OStreamEnd(p) ==
    /\ loop[p].pc = "stream"
    /\ LET F == Finalize(Cache, loop[p].response_msgs)
       IN Commit(p, Sweep(F.G, p, [loop[p] EXCEPT !.victims = Victims(F.G)]))
    /\ UNCHANGED <<channel, plugin_hooks, run>>

NextOllama ==
    \E p \in 1..SpecLoops :
        \/ OArrive(p) \/ OStart(p) \/ OLockResume(p) \/ OPrevFetched(p)
        \/ OSpinDone(p) \/ OFetchDone(p) \/ OFetchFail(p)
        \/ OChunk(p) \/ OSendCreated(p) \/ ORegister(p) \/ ORaise(p)
        \/ OStreamEnd(p) \/ SweepResume(p)

SpecOllama == Init /\ [][NextOllama]_vars

\* ------------------------------------------------------- llmcord-studpo.py
RECURSIVE SIter(_, _, _), STail(_, _, _)

\* llmcord-studpo.py 203, 292: get_contextual_memories is a coroutine function;
\* called without await it hands back a coroutine object, whatever the memories
get_contextual_memories == "coroutine"

\* llmcord-studpo.py 290-307: the prompt is a list of three strings and `memories
\* if memories else "No memories available"` (a coroutine object is true);
\* "\n".join(prompt) gives the content when every item is a string and raises
\* TypeError otherwise
get_system_prompt ==
    LET memories == get_contextual_memories
        prompt == <<"str", "str", "str", IF memories # "" THEN memories ELSE "str">>
    IN IF \A k \in 1..Len(prompt) : prompt[k] = "str" THEN "dict" ELSE "TypeError"

\* llmcord-studpo.py 413-416: while curr_msg and len(reply_chain) < MAX_MESSAGES:
\* curr_node = msg_nodes.setdefault(curr_msg.id, MsgNode()); async with
\* curr_node.lock.  After the walk, 497 builds the system prompt, outside the try
\* of 503: an exception there ends on_message; the model call, the renderer, the
\* finalization (553-561) and the sweep (564-566) come after it.
SIter(G, p, l) ==
    IF l.current_msg = 0 \/ l.chain >= MAX_MESSAGES
    THEN [G |-> G,
          l |-> [l EXCEPT !.node = 0, !.gen = 0,
                          !.pc = IF get_system_prompt = "TypeError" THEN "crashed"
                                 ELSE "stream"]]
    ELSE LET id == l.current_msg
             S == setdefault(G, id)
             g == S.mn[id]
             l1 == [l EXCEPT !.node = id, !.gen = g]
         IN IF lock_free(S, id, g)
            THEN LET A == lock_acquire(S, id, g, p)
                     m == channel[id]
                 IN IF A.h[id][g].data # "none" THEN STail(A, p, l1)
                    ELSE IF m.ref = 0 /\ ~m.mention
                         THEN [G |-> store_turn(A, id, g), l |-> [l1 EXCEPT !.pc = "prev"]]
                         ELSE IF m.ref # 0
                              THEN [G |-> store_turn(A, id, g),
                                    l |-> [l1 EXCEPT !.next = m.ref, !.pc = "ofetch"]]
                              ELSE STail(store_turn(A, id, g), p, l1)
            ELSE [G |-> lock_enqueue(S, id, g, p), l |-> [l1 EXCEPT !.pc = "lockwait"]]

\* llmcord-studpo.py 481-495: reply_chain.append(curr_node.data); curr_msg =
\* curr_node.next_msg; the lock is released and the walk goes on
STail(G, p, l) ==
    SIter(lock_release(G, l.node, l.gen), p,
          [l EXCEPT !.chain = @ + 1, !.current_msg = G.h[l.node][l.gen].next_msg,
                    !.next = 0])

\* llmcord-studpo.py 357-391: a user sends a message that names or mentions the bot
\* and is no memory command; with a mention or "mom" in it the example memory is
\* stored and the reply "I remember: ..." is awaited
SArrive(p) ==
    /\ loop[p].pc = "idle"
    /\ \A q \in Loops : q < p => loop[q].pc # "idle"
    /\ Len(channel) < MaxId
    /\ \E ref \in 0..Len(channel), mention \in BOOLEAN :
          channel' = Append(channel, [bot |-> FALSE, ref |-> ref, mention |-> mention])
    /\ loop' = [loop EXCEPT ![p] = [Idle EXCEPT !.new_msg = Len(channel) + 1,
                                                !.current_msg = Len(channel) + 1,
                                                !.pc = "start"]]
    /\ UNCHANGED <<msg_nodes, heap, plugin_hooks, run>>

\* llmcord-studpo.py 391-416: the reply, when there is one, is sent and joins the
\* channel; the message holds no memory statement, and the walk starts
SStart(p) ==
    /\ loop[p].pc = "start"
    /\ \/ UNCHANGED channel
       \/ /\ Len(channel) < MaxId
          /\ channel' = Append(channel, [bot |-> TRUE, ref |-> loop[p].new_msg,
                                         mention |-> FALSE])
    /\ Commit(p, SIter(Cache, p, loop[p]))
    /\ UNCHANGED <<plugin_hooks, run>>

\* llmcord-studpo.py 391: the reply raises; on_message ends with the exception
SReplyFail(p) ==
    /\ loop[p].pc = "start"
    /\ loop' = [loop EXCEPT ![p].pc = "crashed", ![p].failed = TRUE]
    /\ UNCHANGED <<channel, msg_nodes, heap, plugin_hooks, run>>

\* the lock a walker waited for is handed to it (llmcord-studpo.py 418)
SLockResume(p) ==
    /\ loop[p].pc = "lockwait"
    /\ heap[loop[p].node][loop[p].gen].lock = p
    /\ LET id == loop[p].node
           g == loop[p].gen
           m == channel[id]
           l == loop[p]
       IN IF heap[id][g].data # "none" THEN Commit(p, STail(Cache, p, l))
          ELSE IF m.ref = 0 /\ ~m.mention
               THEN Commit(p, [G |-> store_turn(Cache, id, g),
                               l |-> [l EXCEPT !.pc = "prev"]])
               ELSE IF m.ref # 0
                    THEN Commit(p, [G |-> store_turn(Cache, id, g),
                                    l |-> [l EXCEPT !.next = m.ref, !.pc = "ofetch"]])
                    ELSE Commit(p, STail(store_turn(Cache, id, g), p, l))
    /\ UNCHANGED <<channel, plugin_hooks, run>>

\* llmcord-studpo.py 470-473: the history fetch returns the previous message of the
\* channel; it becomes next_msg when it is by the same author
SPrevFetched(p) ==
    /\ loop[p].pc = "prev"
    /\ LET id == loop[p].node
           prev == IF id > 1 /\ ~channel[id - 1].bot THEN id - 1 ELSE 0
       IN Commit(p, STail([Cache EXCEPT !.h[id][loop[p].gen].next_msg = prev], p, loop[p]))
    /\ UNCHANGED <<channel, plugin_hooks, run>>

\* llmcord-studpo.py 475-476: curr_node.next_msg = await fetch_message(...)
SFetchDone(p) ==
    /\ loop[p].pc = "ofetch"
    /\ Commit(p, STail([Cache EXCEPT !.h[loop[p].node][loop[p].gen].next_msg = loop[p].next],
                       p, loop[p]))
    /\ UNCHANGED <<channel, plugin_hooks, run>>

\* llmcord-studpo.py 477-479: the fetch raises: curr_node.fetch_next_failed = True
SFetchFail(p) ==
    /\ loop[p].pc \in {"ofetch", "prev"}
    /\ Commit(p, STail([Cache EXCEPT !.h[loop[p].node][loop[p].gen].fetch_next_failed = TRUE],
                       p, loop[p]))
    /\ UNCHANGED <<channel, plugin_hooks, run>>

NextStudpo ==
    \E p \in 1..SpecLoops :
        \/ SArrive(p) \/ SStart(p) \/ SReplyFail(p) \/ SLockResume(p)
        \/ SPrevFetched(p) \/ SFetchDone(p) \/ SFetchFail(p)

SpecStudpo == Init /\ [][NextStudpo]_vars

\* ------------------------------------------ llmcord.py: the renderer's segments
\* The text of a response is the sequence of its character positions 1..n; a token
\* stream cuts it into consecutive chunks, some of them empty (delta.content or "").
RECURSIVE Sum(_), Cut(_, _), join(_)
Sum(ns) == IF ns = <<>> THEN 0 ELSE Head(ns) + Sum(Tail(ns))

\* the chunks of the stream whose chunk lengths are ns, the first starting at from
Cut(ns, from) ==
    IF ns = <<>> THEN <<>>
    ELSE <<[k \in 1..Head(ns) |-> from + k - 1]>> \o Cut(Tail(ns), from + Head(ns))

\* "".join(parts)
join(parts) == IF parts = <<>> THEN <<>> ELSE Head(parts) \o join(Tail(parts))

\* the token streams of the responses of at most MAX_MESSAGE_LENGTH + 2 characters
RECURSIVE Lengths(_)
Lengths(n) ==
    IF n = 0 THEN {<<>>}
    ELSE LET shorter == Lengths(n - 1)
         IN shorter \cup {Append(ns, k) : ns \in {m \in shorter : Len(m) = n - 1},
                                           k \in 0..(MAX_MESSAGE_LENGTH + 2)}
Streams == {Cut(ns, 1) : ns \in {m \in Lengths(MaxTokens) : Sum(m) <= MAX_MESSAGE_LENGTH + 2}}

\* a faulty renderer that opens the new segment and forgets the chunk that did not fit
push_chunk_LosesOverflow(response_contents, curr_content) ==
    LET rc == IF response_contents = <<>> THEN <<<<>>>> ELSE response_contents
    IN IF Len(rc[Len(rc)] \o curr_content) > MAX_MESSAGE_LENGTH
       THEN Append(rc, <<>>)
       ELSE [rc EXCEPT ![Len(rc)] = @ \o curr_content]

\* llmcord.py 496, 513-527: one chunk of the stream.  `if not response_contents:
\* response_contents = [""]`; `if len(response_contents[-1] + curr_content) >
\* MAX_MESSAGE_LENGTH: response_contents.append("")` (with the send of the next
\* outbound message); `response_contents[-1] += curr_content`.
push_chunk(response_contents, curr_content) ==
    LET rc == IF response_contents = <<>> THEN <<<<>>>> ELSE response_contents
        rc2 == IF Len(rc[Len(rc)] \o curr_content) > MAX_MESSAGE_LENGTH
               THEN Append(rc, <<>>) ELSE rc
    IN [rc2 EXCEPT ![Len(rc2)] = @ \o curr_content]

\* the outbound message a send has just created: it shows the streaming indicator
Placeholder == [text |-> <<>>, final |-> FALSE]

\* edit_task is None or a task that is done
task_idle(r) == \A t \in r.pending : t.n # r.edit_task

\* a faulty throttle that lets every chunk push an edit
should_update_NoThrottle(r, finish, last_task_time) == TRUE

\* llmcord.py 530, 541: should_update = (finish_reason is not None or (not edit_task
\* or edit_task.done()) and dt.now().timestamp() - last_task_time >=
\* EDIT_DELAY_SECONDS)
should_update(r, finish, last_task_time) ==
    finish \/ (task_idle(r) /\ r.now - last_task_time >= EDIT_DELAY_SECONDS)

\* llmcord.py 534-539, 545-549: edit_task = asyncio.create_task(response_msgs[-1].edit(
\* ...)) with the text of the last segment (and the indicator unless finish_reason);
\* last_task_time = now
push_edit(r) ==
    [r EXCEPT !.edits = @ + 1, !.edit_task = r.edits + 1, !.last_task_time = r.now,
              !.pending = @ \cup {[n |-> r.edits + 1, msg |-> Len(r.response_contents),
                                   text |-> r.response_contents[Len(r.response_contents)],
                                   final |-> r.finish]},
              !.pc = "render"]

\* llmcord.py 491-549: the renderer takes the next chunk of the stream; the last
\* chunk of a stream carries the finish_reason.  The first chunk sends the first
\* outbound message (496-511, last_task_time = now), a chunk that does not fit sends
\* the next (513-525); the chunk joins the last segment (527); then, if
\* should_update, the renderer waits for the edit in flight (532, 543) and pushes the
\* text of the last segment.
RenderChunk ==
    /\ run.pc = "render" /\ run.stream # <<>>
    /\ LET curr_content == Head(run.stream)
           finish == Tail(run.stream) = <<>>
           first == run.response_contents = <<>>
           contents == push_chunk(run.response_contents, curr_content)
           shown == IF first
                    THEN IF Len(contents) = 2 THEN <<Placeholder, Placeholder>>
                         ELSE <<Placeholder>>
                    ELSE IF Len(contents) > Len(run.response_contents)
                         THEN Append(run.shown, Placeholder) ELSE run.shown
           last_task_time == IF first THEN run.now ELSE run.last_task_time
           r == [run EXCEPT !.stream = Tail(@), !.response_contents = contents,
                            !.shown = shown, !.last_task_time = last_task_time,
                            !.finish = finish]
       IN IF should_update(r, finish, last_task_time)
          THEN IF task_idle(r) THEN run' = push_edit(r)
               ELSE run' = [r EXCEPT !.pc = "waitedit"]
          ELSE run' = r
    /\ UNCHANGED <<channel, msg_nodes, heap, loop, plugin_hooks>>

\* llmcord.py 532-539, 543-549: `while edit_task and not edit_task.done(): await
\* asyncio.sleep(0)` is over: the edit is pushed
WaitEdit ==
    /\ run.pc = "waitedit" /\ task_idle(run)
    /\ run' = push_edit(run)
    /\ UNCHANGED <<channel, msg_nodes, heap, loop, plugin_hooks>>

\* llmcord.py 538, 548: an edit in flight reaches the message it was made for
EditDone ==
    /\ \E t \in run.pending :
          run' = [run EXCEPT !.pending = @ \ {t},
                             !.shown[t.msg] = [text |-> t.text, final |-> t.final]]
    /\ UNCHANGED <<channel, msg_nodes, heap, loop, plugin_hooks>>

\* a second passes while the stream is awaited
Tick ==
    /\ run.pc \in {"render", "waitedit"} /\ run.stream # <<>>
    /\ run.now < MaxTime
    /\ run' = [run EXCEPT !.now = @ + 1]
    /\ UNCHANGED <<channel, msg_nodes, heap, loop, plugin_hooks>>

\* llmcord.py 561: the stream is exhausted: full_response = "".join(response_contents)
RenderEnd ==
    /\ run.pc = "render" /\ run.stream = <<>>
    /\ run' = [run EXCEPT !.pc = "rendered", !.full_response = join(run.response_contents)]
    /\ UNCHANGED <<channel, msg_nodes, heap, loop, plugin_hooks>>

InitRender ==
    /\ channel = <<>>
    /\ msg_nodes = [id \in Ids |-> 0]
    /\ heap = [id \in Ids |-> <<>>]
    /\ loop = [p \in Loops |-> Idle]
    /\ plugin_hooks = load_plugins(RepoMods)
    /\ \E stream \in Streams :
          run = [pc |-> "render", tokens |-> stream, stream |-> stream,
                 response_contents |-> <<>>, full_response |-> <<>>,
                 shown |-> <<>>, pending |-> {}, edit_task |-> 0, edits |-> 0,
                 now |-> 0, last_task_time |-> 0, finish |-> FALSE]

NextRender == RenderChunk \/ WaitEdit \/ EditDone \/ Tick \/ RenderEnd

SpecRender == InitRender /\ [][NextRender]_vars

\* ------------------------------------- the context assembled for the model call
\* A message by what the normalizer reads of it: text is "\n".join(text_parts), the
\* sequence of its character positions, img whether it yields an image part.  A
\* chain is a start message (chain[1]) followed by the messages behind it, the
\* nearest first: those its reply links lead to, or those before it in the channel.
\* The texts are the empty one and those around MAX_TEXT characters.
Texts == {[k \in 1..n |-> k] : n \in {0} \cup (MAX_TEXT - 1)..(MAX_TEXT + 1)}
Message == [text : Texts, img : BOOLEAN]
Chains == UNION {[1..n -> Message] : n \in 1..MaxChain}

\* s[:n] and s[::-1]
slice(s, n) == SubSeq(s, 1, IF Len(s) < n THEN Len(s) ELSE n)
Reverse(s) == [k \in 1..Len(s) |-> s[Len(s) + 1 - k]]

\* a faulty normalizer that takes a text of MAX_TEXT characters for too long
normalize_FlagAtLimit(msg, id) ==
    [data |-> [id |-> id, text |-> slice(msg.text, MAX_TEXT),
               images |-> IF msg.img THEN 1 ELSE 0],
     too_much_text |-> Len(msg.text) >= MAX_TEXT]

\* llmcord.py 330-341, 388-399, 449-461: `if len(text) > MAX_TEXT: text =
\* text[:MAX_TEXT]; node.too_much_text = True` (the flag of a fresh MsgNode is
\* False); the content is the text, or the text part (if any) and the image parts.
\* id stands for what tells the turn of one message from that of another.
normalize(msg, id) ==
    [data |-> [id |-> id,
               text |-> IF Len(msg.text) > MAX_TEXT THEN slice(msg.text, MAX_TEXT)
                        ELSE msg.text,
               images |-> IF msg.img THEN 1 ELSE 0],
     too_much_text |-> IF Len(msg.text) > MAX_TEXT THEN TRUE ELSE FALSE]

\* llmcord_ollama.py 309-328: content from text[:MAX_TEXT];
\* curr_node.too_much_text = len(text) > MAX_TEXT
onormalize(msg, id) ==
    [data |-> [id |-> id, text |-> slice(msg.text, MAX_TEXT),
               images |-> IF msg.img THEN 1 ELSE 0],
     too_much_text |-> Len(msg.text) > MAX_TEXT]

\* a faulty filter that lets every turn through
has_content_Always(data) == TRUE

\* llmcord.py 344, 402, 471, llmcord_ollama.py 354: `if node.data["content"]:` a
\* non-empty string or a non-empty list of parts
has_content(data) == data.text # <<>> \/ data.images > 0

\* llmcord.py 139-144: the system prompt, never empty; llmcord_ollama.py 375: the
\* note that follows it
System == [id |-> 0, text |-> <<0>>, images |-> 0]

\* the turn of message k of the chain is computed and, when it has content, appended
walk_step(r, node) ==
    [r EXCEPT !.k = @ + 1,
              !.nodes = [j \in DOMAIN r.nodes \cup {r.k} |->
                            IF j = r.k THEN node ELSE r.nodes[j]],
              !.walked = IF has_content(node.data) THEN Append(@, node.data) ELSE @]

\* llmcord.py 295-348: `while current_msg.reference:` the referenced message is
\* fetched, normalized and appended
ReplyWalk ==
    /\ run.pc = "walk" /\ run.variant = "reply"
    /\ run.k <= Len(run.chain)
    /\ run' = walk_step(run, normalize(run.chain[run.k], run.k))
    /\ UNCHANGED <<channel, msg_nodes, heap, loop, plugin_hooks>>

\* llmcord.py 351-403: `async for prev_msg in channel.history(before=new_msg,
\* limit=MAX_MESSAGES):` the next earlier message is normalized and appended
HistoryWalk ==
    /\ run.pc = "walk" /\ run.variant = "history"
    /\ run.k <= Len(run.chain) /\ run.k <= MAX_MESSAGES + 1
    /\ run' = walk_step(run, normalize(run.chain[run.k], run.k))
    /\ UNCHANGED <<channel, msg_nodes, heap, loop, plugin_hooks>>

\* llmcord.py 349/404, 406-474: the walk is over: conversation_history.reverse();
\* the turn of new_msg is computed and appended when it has content; messages =
\* ([get_system_prompt()] + conversation_history)[:MAX_MESSAGES + 1]
Assemble ==
    /\ run.pc = "walk" /\ run.variant \in {"reply", "history"}
    /\ \/ run.k > Len(run.chain)
       \/ run.variant = "history" /\ run.k > MAX_MESSAGES + 1
    /\ LET r == walk_step([run EXCEPT !.k = 1, !.walked = Reverse(@)],
                          normalize(run.chain[1], 1))
       IN run' = [r EXCEPT !.pc = "assembled",
                           !.messages = slice(<<System>> \o r.walked, MAX_MESSAGES + 1)]
    /\ UNCHANGED <<channel, msg_nodes, heap, loop, plugin_hooks>>

\* llmcord_ollama.py 293-369: `while curr_msg and len(reply_chain) < MAX_MESSAGES:`
\* the message is normalized and appended, curr_msg = curr_node.next_msg
OllamaWalk ==
    /\ run.pc = "walk" /\ run.variant = "ollama"
    /\ run.k <= Len(run.chain) /\ Len(run.walked) < MAX_MESSAGES
    /\ run' = walk_step(run, onormalize(run.chain[run.k], run.k))
    /\ UNCHANGED <<channel, msg_nodes, heap, loop, plugin_hooks>>

\* llmcord_ollama.py 372-377: messages = (reply_chain + [system prompt] + [note] +
\* historical_context)[::-1], for an author without saved history
OllamaAssemble ==
    /\ run.pc = "walk" /\ run.variant = "ollama"
    /\ run.k > Len(run.chain) \/ Len(run.walked) >= MAX_MESSAGES
    /\ run' = [run EXCEPT !.pc = "assembled",
                          !.messages = Reverse(run.walked \o <<System, System>>)]
    /\ UNCHANGED <<channel, msg_nodes, heap, loop, plugin_hooks>>

InitContext ==
    /\ channel = <<>>
    /\ msg_nodes = [id \in Ids |-> 0]
    /\ heap = [id \in Ids |-> <<>>]
    /\ loop = [p \in Loops |-> Idle]
    /\ plugin_hooks = load_plugins(RepoMods)
    /\ \E chain \in Chains, variant \in {"reply", "history", "ollama"} :
          run = [pc |-> "walk", variant |-> variant, chain |-> chain,
                 k |-> IF variant = "ollama" THEN 1 ELSE 2,
                 nodes |-> [j \in {} |-> 0], walked |-> <<>>, messages |-> <<>>]

NextContext == ReplyWalk \/ HistoryWalk \/ Assemble \/ OllamaWalk \/ OllamaAssemble

SpecContext == InitContext /\ [][NextContext]_vars

\* ------------------------------------------------- the normalizer of a message
\* Characters are numbers: 1, 2, ... the characters of the text a user typed, 0 the
\* "\n" that joins the parts, Mention the mention token of the bot, Space a blank,
\* Caption the text "[Image description: <caption>]" of a hook's caption.
Mention == 0 - 1
Space == 0 - 2
Caption == <<101, 102, 103>>

\* new_msg.content of a message: the typed text, after the mention token and a blank
\* when the message begins with the mention
content_of(msg) ==
    (IF msg.mention THEN <<Mention, Space>> ELSE <<>>) \o [k \in 1..msg.body |-> k]

\* "\n".join(text_parts)
RECURSIVE joinlines(_)
joinlines(parts) ==
    IF parts = <<>> THEN <<>>
    ELSE IF Len(parts) = 1 THEN parts[1]
         ELSE parts[1] \o <<0>> \o joinlines(Tail(parts))

\* str.replace(Mention, "", 1) and str.lstrip()
RECURSIVE replace_first(_), lstrip(_)
replace_first(text) ==
    IF text = <<>> THEN <<>>
    ELSE IF Head(text) = Mention THEN Tail(text)
         ELSE <<Head(text)>> \o replace_first(Tail(text))
lstrip(text) ==
    IF text # <<>> /\ Head(text) \in {Space, 0} THEN lstrip(Tail(text)) ELSE text

\* llmcord.py 446-461: text = "\n".join(text_parts), cut at MAX_TEXT; the content is
\* the text, or the parts when there are image parts; role user
finish(r) ==
    LET text == joinlines(r.text_parts)
        n == normalize([text |-> text, img |-> r.image_parts > 0], 1)
    IN [r EXCEPT !.pc = "normalized", !.text = text,
                 !.data = [text |-> n.data.text, images |-> r.image_parts,
                           role |-> "user"],
                 !.too_much_text = n.too_much_text]

RECURSIVE next_attachment(_)

\* llmcord.py 442-445: `if not processed and LLM_ACCEPTS_IMAGES:` the image itself
\* becomes an image part
fallback(r) ==
    next_attachment(IF r.accepts THEN [r EXCEPT !.image_parts = @ + 1] ELSE r)

\* llmcord.py 421-424: `for att in good_attachments["image"][:MAX_IMAGES]:` the next
\* attachment is offered to the first hook; without hooks the loop falls to 442
next_attachment(r) ==
    IF r.att >= r.msg.natt THEN finish(r)
    ELSE LET r1 == [r EXCEPT !.att = @ + 1, !.i = 1]
         IN IF plugin_hooks["process_attachment"] = <<>> THEN fallback(r1)
            ELSE [r1 EXCEPT !.pc = "hook"]

\* a faulty hook loop that drops the caption of a result that also has image_data
claimed_CaptionOrImage(r, out) ==
    [r EXCEPT !.text_parts = IF out = "caption" THEN Append(@, Caption) ELSE @,
              !.image_parts = IF out \in {"image_data", "both"} /\ r.accepts
                              THEN @ + 1 ELSE @]

\* llmcord.py 429-438: `if result:` the caption, when there is one and it is not
\* empty, joins text_parts as "[Image description: ...]"; the image_data, when there is
\* any and LLM_ACCEPTS_IMAGES, becomes an image part
claimed(r, out) ==
    [r EXCEPT !.text_parts = IF out \in {"caption", "both"} THEN Append(@, Caption) ELSE @,
              !.image_parts = IF out \in {"image_data", "both"} /\ r.accepts
                              THEN @ + 1 ELSE @]

\* llmcord.py 416-419: text_parts starts with effective_content (285-289: the
\* content of the message as it is) when there is any
NormalizeStart ==
    /\ run.pc = "start" /\ run.variant = "llmcord"
    /\ LET effective_content == content_of(run.msg)
       IN run' = next_attachment(
                    [run EXCEPT !.text_parts = IF effective_content # <<>>
                                               THEN <<effective_content>> ELSE <<>>])
    /\ UNCHANGED <<channel, msg_nodes, heap, loop, plugin_hooks>>

\* llmcord.py 424-440: the awaited process_attachment hook returns None, an empty
\* dict, a dict with an empty caption, with a caption, with image_data or with both,
\* or raises.  `if result:` the caption (when not empty) joins text_parts, the
\* image_data becomes an image part when LLM_ACCEPTS_IMAGES, and the loop over the
\* hooks breaks; otherwise the next hook is tried.
AttachmentHook ==
    /\ run.pc = "hook"
    /\ \E out \in {"none", "empty", "blank", "caption", "image_data", "both", "raise"} :
          LET r == [run EXCEPT !.outs = Append(@, out)]
          IN IF out \in {"blank", "caption", "image_data", "both"}
             THEN run' = next_attachment(claimed(r, out))
             ELSE IF r.i < Len(plugin_hooks["process_attachment"])
                  THEN run' = [r EXCEPT !.i = @ + 1]
                  ELSE run' = fallback(r)
    /\ UNCHANGED <<channel, msg_nodes, heap, loop, plugin_hooks>>

\* llmcord_ollama.py 301-328: the text is the joined content; `if
\* curr_msg.content.startswith(mention): text = text.replace(mention, "", 1).lstrip()`;
\* the images of the message become image parts when LLM_ACCEPTS_IMAGES
OllamaNormalize ==
    /\ run.pc = "start" /\ run.variant = "ollama"
    /\ LET content == content_of(run.msg)
           joined == joinlines(IF content # <<>> THEN <<content>> ELSE <<>>)
           text == IF content # <<>> /\ Head(content) = Mention
                   THEN lstrip(replace_first(joined)) ELSE joined
           images == IF run.accepts THEN run.msg.natt ELSE 0
           n == onormalize([text |-> text, img |-> images > 0], 1)
       IN run' = [run EXCEPT !.pc = "normalized", !.text = text,
                             !.data = [text |-> n.data.text, images |-> images,
                                       role |-> "user"],
                             !.too_much_text = n.too_much_text]
    /\ UNCHANGED <<channel, msg_nodes, heap, loop, plugin_hooks>>

\* a message of a user, with up to MaxAtt image attachments, for a model that
\* accepts images or one that does not
InitNormalize ==
    /\ channel = <<>>
    /\ msg_nodes = [id \in Ids |-> 0]
    /\ heap = [id \in Ids |-> <<>>]
    /\ loop = [p \in Loops |-> Idle]
    /\ plugin_hooks = load_plugins(RepoMods)
    /\ \E mention \in BOOLEAN, body \in 0..(MAX_TEXT + 1), natt \in 0..MaxAtt,
          accepts \in BOOLEAN, variant \in {"llmcord", "ollama"} :
          run = [pc |-> "start", variant |-> variant, accepts |-> accepts,
                 msg |-> [mention |-> mention, body |-> body, natt |-> natt],
                 att |-> 0, i |-> 0, outs |-> <<>>, text_parts |-> <<>>,
                 image_parts |-> 0, text |-> <<>>,
                 data |-> [text |-> <<>>, images |-> 0, role |-> "none"],
                 too_much_text |-> FALSE]

NextNormalize == NormalizeStart \/ AttachmentHook \/ OllamaNormalize

SpecNormalize == InitNormalize /\ [][NextNormalize]_vars

\* ------------------------------------ the scan of the channel behind a non-reply
\* The messages before a start message that is not a reply, the newest first: author
\* is Sender (the author of the start message), Stranger or Bot; blank says that the
\* message has neither content nor embeds; old that it was created more than 300 s
\* before the start message.  Going back, once a message is old the rest are.
Bot == 0
Sender == 1
Stranger == 2
Earlier == [author : {Bot, Sender, Stranger}, blank : BOOLEAN, old : BOOLEAN]
Befores == {s \in UNION {[1..n -> Earlier] : n \in 0..MaxScan} :
               \A j \in 1..Len(s), k \in 1..Len(s) : j < k /\ s[j].old => s[k].old}

\* llmcord.py 352-359, 402-404: one turn of `async for prev_msg in
\* channel.history(before=new_msg, limit=MAX_MESSAGES):` a blank message of the bot
\* is passed over, a message older than 300 s ends the scan, any other message is
\* normalized; after the last message the scan is over
HistoryScan ==
    /\ run.pc = "scan" /\ run.variant = "llmcord"
    /\ LET m == run.prev[run.k]
       IN run' = IF run.k > Len(run.prev) \/ run.k > MAX_MESSAGES
                 THEN [run EXCEPT !.pc = "scanned"]
                 ELSE IF m.author = Bot /\ m.blank
                 THEN [run EXCEPT !.k = @ + 1]
                 ELSE IF m.old
                 THEN [run EXCEPT !.pc = "scanned"]
                 ELSE [run EXCEPT !.k = @ + 1, !.scanned = @ \cup {run.k}]
    /\ UNCHANGED <<channel, msg_nodes, heap, loop, plugin_hooks>>

\* llmcord_ollama.py 294-358: one turn of `while curr_msg and len(reply_chain) <
\* MAX_MESSAGES:` for a start message that is no reply, names the bot without the
\* mention token and stands in a guild channel, and messages before it that are no
\* replies and hold no mention token: the message is normalized; next_msg is the
\* message before it when that one has the same author (332-341), else None; the
\* turn is appended when it is not empty.  Message 0 is the start message.
OllamaScan ==
    /\ run.pc = "scan" /\ run.variant = "ollama"
    /\ LET author == IF run.k = 0 THEN Sender ELSE run.prev[run.k].author
           empty == run.k # 0 /\ run.prev[run.k].blank
           more == run.k < Len(run.prev) /\ run.prev[run.k + 1].author = author
       IN run' = IF run.k > Len(run.prev) \/ run.count >= MAX_MESSAGES
                 THEN [run EXCEPT !.pc = "scanned"]
                 ELSE [run EXCEPT !.scanned = @ \cup ({run.k} \ {0}),
                                  !.count = IF empty THEN @ ELSE @ + 1,
                                  !.k = IF more THEN @ + 1 ELSE Len(run.prev) + 1]
    /\ UNCHANGED <<channel, msg_nodes, heap, loop, plugin_hooks>>

InitScan ==
    /\ channel = <<>>
    /\ msg_nodes = [id \in Ids |-> 0]
    /\ heap = [id \in Ids |-> <<>>]
    /\ loop = [p \in Loops |-> Idle]
    /\ plugin_hooks = load_plugins(RepoMods)
    /\ \E prev \in Befores, variant \in {"llmcord", "ollama"} :
          run = [pc |-> "scan", variant |-> variant, prev |-> prev,
                 k |-> IF variant = "ollama" THEN 0 ELSE 1,
                 scanned |-> {}, count |-> 0]

NextScan == HistoryScan \/ OllamaScan

SpecScan == InitScan /\ [][NextScan]_vars

\* --------------------------- the image attachments in the three normalizing paths
\* llmcord.py normalizes a message in three places: "reply" (302-343, a message of
\* the reply chain), "history" (360-401, a message before a non-reply) and "current"
\* (408-463, the start message).  run.parts holds, for each image attachment done,
\* whether a hook claimed it and how many image parts it gave.
HookFiles == {<<>>, <<"vision_caption">>, <<"plugin_template", "vision_caption">>}

\* image_parts.append(...) for the attachment at hand
add_image(r) ==
    [r EXCEPT !.image_parts = @ + 1, !.parts[r.att].images = @ + 1]

\* llmcord.py 324-326, 442-445: after the loop over the hooks, `if not processed and
\* LLM_ACCEPTS_IMAGES:` the raw image becomes an image part; the history path has no
\* such statement after its loop (382-384 stand inside it)
after_hooks(r) ==
    IF r.accepts /\ r.path \in {"reply", "current"} THEN add_image(r) ELSE r

\* llmcord.py 382-384: in the history path `if not processed and
\* LLM_ACCEPTS_IMAGES:` follows the try statement inside the loop over the hooks, so
\* it runs after every hook that did not claim the attachment
inside_hooks(r) ==
    IF r.accepts /\ r.path = "history" THEN add_image(r) ELSE r

\* llmcord.py 309-311, 366-368, 421-424: `for att in
\* good_attachments["image"][:MAX_IMAGES]:` processed = False and the attachment goes
\* to the first hook; without hooks the loop over them is empty
RECURSIVE offer(_)
offer(r) ==
    IF r.att >= r.natt THEN [r EXCEPT !.pc = "normalized"]
    ELSE LET r1 == [r EXCEPT !.att = @ + 1, !.i = 1,
                             !.parts = Append(@, [claimed |-> FALSE, images |-> 0])]
         IN IF plugin_hooks["process_attachment"] = <<>> THEN offer(after_hooks(r1))
            ELSE [r1 EXCEPT !.pc = "hook"]

\* the normalization of a message with image attachments begins
PathStart ==
    /\ run.pc = "start"
    /\ run' = offer(run)
    /\ UNCHANGED <<channel, msg_nodes, heap, loop, plugin_hooks>>

\* llmcord.py 312-323, 369-381, 425-440: the awaited hook returns or raises.  `if
\* result:` image_data becomes an image part when LLM_ACCEPTS_IMAGES, processed =
\* True, break; otherwise the next hook is tried, and after the last one the
\* statements after the loop run.
PathHook ==
    /\ run.pc = "hook"
    /\ \E out \in {"none", "empty", "blank", "caption", "image_data", "both", "raise"} :
          IF out \in {"blank", "caption", "image_data", "both"}
          THEN LET r == [run EXCEPT !.parts[run.att].claimed = TRUE]
               IN run' = offer(IF out \in {"image_data", "both"} /\ r.accepts
                               THEN add_image(r) ELSE r)
          ELSE LET r == inside_hooks(run)
               IN IF r.i < Len(plugin_hooks["process_attachment"])
                  THEN run' = [r EXCEPT !.i = @ + 1]
                  ELSE run' = offer(after_hooks(r))
    /\ UNCHANGED <<channel, msg_nodes, heap, loop, plugin_hooks>>

\* a message with up to MaxAtt image attachments (all within MAX_IMAGES), in one of
\* the three paths, with no, one or two process_attachment hooks registered
InitPaths ==
    /\ channel = <<>>
    /\ msg_nodes = [id \in Ids |-> 0]
    /\ heap = [id \in Ids |-> <<>>]
    /\ loop = [p \in Loops |-> Idle]
    /\ \E files \in HookFiles : plugin_hooks = load_plugins(files)
    /\ \E path \in {"reply", "history", "current"}, accepts \in BOOLEAN,
          natt \in 0..MaxAtt :
          run = [pc |-> "start", path |-> path, accepts |-> accepts, natt |-> natt,
                 att |-> 0, i |-> 0, image_parts |-> 0, parts |-> <<>>]

NextPaths == PathStart \/ PathHook

SpecPaths == InitPaths /\ [][NextPaths]_vars

\* ------------------------------------------------------ the periodic trigger
\* run.MESSAGE_COUNT is the global counter of llmcord.py 69; run.msg[p] is the
\* on_message invocation of the p-th message received: at is the value its arrival
\* brought the counter to, ref whether it replies to a message that has to be
\* fetched, random_response what line 272 computed for it.
Arrivals == 1..MaxArrivals

\* llmcord.py 272: random_response = (MESSAGE_COUNT % SPEAK_EVERY_TURNS == 0), read
\* from the global when the coroutine gets there
triggered(r, p) ==
    [r EXCEPT !.msg[p].pc = "triggered",
              !.msg[p].random_response = (r.MESSAGE_COUNT % SPEAK_EVERY_TURNS = 0)]

\* llmcord.py 262-267: `if new_msg.reference:` the referenced message is awaited
\* (suspending when it is not cached) before the trigger is computed
after_hooks_received(r, p) ==
    IF r.msg[p].ref THEN [r EXCEPT !.msg[p].pc = "fetch"] ELSE triggered(r, p)

\* llmcord.py 195-203: a message of a user (neither "//" nor "!" at its start)
\* arrives: MESSAGE_COUNT += 1, then the on_message_received hooks are awaited (the
\* hook of mods/memory.py suspends in asyncio.to_thread)
MsgArrive(p) ==
    /\ run.msg[p].pc = "idle"
    /\ \A q \in Arrivals : q < p => run.msg[q].pc # "idle"
    /\ \E ref \in BOOLEAN :
          LET r == [run EXCEPT !.MESSAGE_COUNT = @ + 1,
                               !.msg[p].at = run.MESSAGE_COUNT + 1,
                               !.msg[p].ref = ref]
          IN run' = IF plugin_hooks["on_message_received"] = <<>>
                    THEN after_hooks_received(r, p)
                    ELSE [r EXCEPT !.msg[p].pc = "hooks"]
    /\ UNCHANGED <<channel, msg_nodes, heap, loop, plugin_hooks>>

\* llmcord.py 204-267: the hooks are over and none returned False
MsgHooksDone(p) ==
    /\ run.msg[p].pc = "hooks"
    /\ run' = after_hooks_received(run, p)
    /\ UNCHANGED <<channel, msg_nodes, heap, loop, plugin_hooks>>

\* llmcord.py 264-272: the referenced message is there (or the fetch raised)
MsgFetched(p) ==
    /\ run.msg[p].pc = "fetch"
    /\ run' = triggered(run, p)
    /\ UNCHANGED <<channel, msg_nodes, heap, loop, plugin_hooks>>

InitCount ==
    /\ channel = <<>>
    /\ msg_nodes = [id \in Ids |-> 0]
    /\ heap = [id \in Ids |-> <<>>]
    /\ loop = [p \in Loops |-> Idle]
    /\ plugin_hooks = load_plugins(RepoMods)
    /\ run = [MESSAGE_COUNT |-> 0,
              msg |-> [p \in Arrivals |->
                          [pc |-> "idle", at |-> 0, ref |-> FALSE,
                           random_response |-> FALSE]]]

NextCount == \E p \in Arrivals : MsgArrive(p) \/ MsgHooksDone(p) \/ MsgFetched(p)

SpecCount == InitCount /\ [][NextCount]_vars

\* ------------------------------------------------------- the bot conversation
\* run.converse_state is the global dict of llmcord.py 71; run.conv[c] is the
\* on_message invocation of the c-th "!converse N" command: exchanges is N, made the
\* exchanges it has performed (a model call followed by a sent message),
\* last_message the message it answers next (0: the command itself).  channel
\* holds the responses of the conversations, the only messages here that get a
\* node.
Convs == 1..MaxConv

\* llmcord.py 71, 189
Inactive == [active |-> FALSE, exchanges_left |-> 0, channel_id |-> "None"]

\* llmcord.py 168-172, 189: `while converse_state["exchanges_left"] > 0 and
\* converse_state["active"]:` the next model call is awaited; after the loop
\* converse_state is set back and on_message returns
loop_top(r, c) ==
    IF r.converse_state.exchanges_left > 0 /\ r.converse_state.active
    THEN [r EXCEPT !.conv[c].pc = "model"]
    ELSE [r EXCEPT !.converse_state = Inactive, !.conv[c].pc = "done"]

\* llmcord.py 240-246: "!converse N" with 1 <= N <= 10 arrives; the announcement
\* is awaited
ConverseCommand(c) ==
    /\ run.conv[c].pc = "idle"
    /\ \A d \in Convs : d < c => run.conv[d].pc # "idle"
    /\ \E exchanges \in 1..MaxExchanges :
          run' = [run EXCEPT !.conv[c].pc = "announce",
                             !.conv[c].exchanges = exchanges]
    /\ UNCHANGED <<channel, msg_nodes, heap, loop, plugin_hooks>>

\* llmcord.py 246-247, 162-168: the announcement is sent; handle_bot_conversation
\* sets converse_state and enters its loop
Announced(c) ==
    /\ run.conv[c].pc = "announce"
    /\ run' = loop_top([run EXCEPT !.converse_state =
                           [active |-> TRUE,
                            exchanges_left |-> run.conv[c].exchanges,
                            channel_id |-> "channel"]], c)
    /\ UNCHANGED <<channel, msg_nodes, heap, loop, plugin_hooks>>

\* llmcord.py 246, 250: the send of the announcement raises an HTTPException, which
\* `except ValueError` does not catch: on_message ends with it
AnnounceFail(c) ==
    /\ run.conv[c].pc = "announce"
    /\ run' = [run EXCEPT !.conv[c].pc = "crashed"]
    /\ UNCHANGED <<channel, msg_nodes, heap, loop, plugin_hooks>>

\* llmcord.py 176-179: the stream of the model call is read to its end; the send of
\* the response is awaited
ModelDone(c) ==
    /\ run.conv[c].pc = "model"
    /\ run' = [run EXCEPT !.conv[c].pc = "respond"]
    /\ UNCHANGED <<channel, msg_nodes, heap, loop, plugin_hooks>>

\* llmcord.py 176-186: the model call, the stream or the send of the response
\* raises: the exception is logged and the notice is awaited
ExchangeRaise(c) ==
    /\ run.conv[c].pc \in {"model", "respond"}
    /\ run' = [run EXCEPT !.conv[c].pc = "sorry"]
    /\ UNCHANGED <<channel, msg_nodes, heap, loop, plugin_hooks>>

\* llmcord.py 179-183: the response is sent: msg_nodes[response_msg.id] =
\* MsgNode(data=...); last_message = response_msg;
\* converse_state["exchanges_left"] -= 1 (on the dict the global names now);
\* asyncio.sleep(1) is awaited
Responded(c) ==
    /\ run.conv[c].pc = "respond"
    /\ Len(channel) < MaxId
    /\ LET id == Len(channel) + 1
           A == assign_node(Cache, id)
           G == [A EXCEPT !.h[id][A.mn[id]].data = "final"]
       IN /\ Bounded(G)
          /\ msg_nodes' = G.mn
          /\ heap' = G.h
          /\ channel' = Append(channel, [bot |-> TRUE, ref |-> 0, img |-> FALSE])
          /\ run' = [run EXCEPT !.converse_state.exchanges_left = @ - 1,
                                !.conv[c].made = @ + 1,
                                !.conv[c].last_message = id,
                                !.conv[c].pc = "sleep"]
    /\ UNCHANGED <<loop, plugin_hooks>>

\* llmcord.py 183, 168: the sleep is over; back to the loop condition
Slept(c) ==
    /\ run.conv[c].pc = "sleep"
    /\ run' = loop_top(run, c)
    /\ UNCHANGED <<channel, msg_nodes, heap, loop, plugin_hooks>>

\* llmcord.py 186-189: the notice is sent; break; converse_state is set back
SorrySent(c) ==
    /\ run.conv[c].pc = "sorry"
    /\ run' = [run EXCEPT !.converse_state = Inactive, !.conv[c].pc = "done"]
    /\ UNCHANGED <<channel, msg_nodes, heap, loop, plugin_hooks>>

\* llmcord.py 186: the send of the notice raises inside the except clause:
\* handle_bot_conversation and on_message end with that exception
SorryFail(c) ==
    /\ run.conv[c].pc = "sorry"
    /\ run' = [run EXCEPT !.conv[c].pc = "crashed"]
    /\ UNCHANGED <<channel, msg_nodes, heap, loop, plugin_hooks>>

InitConverse ==
    /\ channel = <<>>
    /\ msg_nodes = [id \in Ids |-> 0]
    /\ heap = [id \in Ids |-> <<>>]
    /\ loop = [p \in Loops |-> Idle]
    /\ plugin_hooks = load_plugins(RepoMods)
    /\ run = [converse_state |-> Inactive,
              conv |-> [c \in Convs |->
                           [pc |-> "idle", exchanges |-> 0, made |-> 0,
                            last_message |-> 0]]]

NextConverse ==
    \E c \in Convs :
        \/ ConverseCommand(c) \/ Announced(c) \/ AnnounceFail(c)
        \/ ModelDone(c) \/ ExchangeRaise(c) \/ Responded(c) \/ Slept(c)
        \/ SorrySent(c) \/ SorryFail(c)

SpecConverse == InitConverse /\ [][NextConverse]_vars

\* ------------------------------------------- mods/memory.py: the short-term memory
\* the add_short_term calls made for one user, one per message; call p stores the
\* message p
Calls == 1..MaxCalls

\* memory.py 132-160: the memory of a user who has no file yet (the fields
\* add_short_term reads and writes)
default_memory == [short_term |-> <<>>, total_messages |-> 0]

\* memory.py 270-281: the entry is appended, the list is cut to its last
\* MAX_SHORT_TERM_MESSAGES entries and the message counter is incremented
appended(memory, message) ==
    LET short_term == Append(memory.short_term, message)
        n == Len(short_term)
    IN [short_term |-> IF n > MAX_SHORT_TERM_MESSAGES
                       THEN SubSeq(short_term, n - MAX_SHORT_TERM_MESSAGES + 1, n)
                       ELSE short_term,
        total_messages |-> memory.total_messages + 1]

\* memory.py 268-284: add_short_term holds the dictionary m (an index of
\* run.objs: get_memory hands out the cached dictionary itself, not a copy),
\* changes it in place and starts update_memory, which suspends in store.save
\* (asyncio.to_thread, line 110)
mutate(r, p, m) ==
    [r EXCEPT !.objs[m] = appended(@, p), !.order = Append(@, p),
              !.call[p].mem = m, !.call[p].pc = "saving"]

\* memory.py 266-284, 202-207: add_short_term is called.  With the user cached
\* and the entry not expired get_memory returns without suspending and the call
\* goes on to the save; otherwise it suspends in store.load (line 85)
AddStart(p) ==
    /\ run.call[p].pc = "idle"
    /\ run' = IF run.cache # 0 /\ run.fresh THEN mutate(run, p, run.cache)
              ELSE [run EXCEPT !.call[p].pc = "loading"]
    /\ UNCHANGED <<channel, msg_nodes, heap, loop, plugin_hooks>>

\* memory.py 79-85: the worker thread reads the user's file: json.load builds a
\* dictionary of its own from what the file holds at that moment
FileRead(p) ==
    /\ run.call[p].pc = "loading"
    /\ run' = [run EXCEPT !.objs = Append(@, run.disk),
                          !.call[p].mem = Len(run.objs) + 1,
                          !.call[p].pc = "loaded"]
    /\ UNCHANGED <<channel, msg_nodes, heap, loop, plugin_hooks>>

\* memory.py 210-216, 268-284: store.load returns; get_memory caches the loaded
\* dictionary for five minutes, and add_short_term changes it and starts the save
Loaded(p) ==
    /\ run.call[p].pc = "loaded"
    /\ run' = mutate([run EXCEPT !.cache = run.call[p].mem, !.fresh = TRUE],
                     p, run.call[p].mem)
    /\ UNCHANGED <<channel, msg_nodes, heap, loop, plugin_hooks>>

\* memory.py 103-110: the worker thread writes the dictionary, as it is at that
\* moment, to the temporary file and replaces the user's file with it
FileWritten(p) ==
    /\ run.call[p].pc = "saving"
    /\ run' = [run EXCEPT !.disk = run.objs[run.call[p].mem],
                          !.call[p].pc = "written"]
    /\ UNCHANGED <<channel, msg_nodes, heap, loop, plugin_hooks>>

\* memory.py 240-245, 284: store.save returns True; update_memory caches the
\* dictionary it saved for five minutes and add_short_term is over
Saved(p) ==
    /\ run.call[p].pc = "written"
    /\ run' = [run EXCEPT !.cache = run.call[p].mem, !.fresh = TRUE,
                          !.call[p].pc = "done"]
    /\ UNCHANGED <<channel, msg_nodes, heap, loop, plugin_hooks>>

\* memory.py 205: five minutes pass and the user's cache entry expires
Expired ==
    /\ run.cache # 0 /\ run.fresh
    /\ run' = [run EXCEPT !.fresh = FALSE]
    /\ UNCHANGED <<channel, msg_nodes, heap, loop, plugin_hooks>>

\* memory.py 202-216: the memory get_memory hands out when no call is in
\* progress: the cached dictionary, or what the file holds
current_memory == IF run.cache # 0 /\ run.fresh THEN run.objs[run.cache] ELSE run.disk

\* memory.py 195-200: the manager after construction (nothing cached), or after
\* an earlier get_memory of a user without a file (the default memory cached)
InitMemory ==
    /\ channel = <<>>
    /\ msg_nodes = [id \in Ids |-> 0]
    /\ heap = [id \in Ids |-> <<>>]
    /\ loop = [p \in Loops |-> Idle]
    /\ plugin_hooks = load_plugins(RepoMods)
    /\ \E cached \in BOOLEAN :
          run = [disk |-> default_memory,
                 objs |-> IF cached THEN <<default_memory>> ELSE <<>>,
                 cache |-> IF cached THEN 1 ELSE 0,
                 fresh |-> cached,
                 order |-> <<>>,
                 call |-> [p \in Calls |-> [pc |-> "idle", mem |-> 0]]]

NextMemory ==
    \/ \E p \in Calls : AddStart(p)
    \/ \E p \in Calls : FileRead(p)
    \/ \E p \in Calls : Loaded(p)
    \/ \E p \in Calls : FileWritten(p)
    \/ \E p \in Calls : Saved(p)
    \/ Expired

SpecMemory == InitMemory /\ [][NextMemory]_vars

\* ------------------------------------------------------------------ claims
SeqToSet(s) == {s[i] : i \in 1..Len(s)}

\* the outbound messages of loop p: those registered and the one just sent
Outbound(p) ==
    SeqToSet(loop[p].response_msgs) \cup (IF loop[p].sent # 0 THEN {loop[p].sent} ELSE {})

\* the stream of loop p is in progress: a segment exists or is being streamed and
\* the final content is not assigned yet
Rendering(p) == loop[p].pc \in {"sent", "stream", "send", "notice", "after"}

\* C2: while the stream of an outbound message is in progress, every registered
\* segment's node is cached with its guard held by the renderer, and no node of an
\* outbound message (registered or just sent) carries a turn computed by a walker.
C2_GuardedWhileStreaming ==
    \A p \in Loops : Rendering(p) =>
        /\ \A id \in SeqToSet(loop[p].response_msgs) :
              msg_nodes[id] # 0 /\ heap[id][msg_nodes[id]].lock = p
        /\ \A id \in Outbound(p) :
              \A g \in 1..Len(heap[id]) : heap[id][g].data # "turn"

\* the loops inside the guarded section of node (id, g), awaiting the hooks
Computing(id, g) ==
    {p \in Loops : loop[p].pc = "hook" /\ loop[p].node = id /\ loop[p].gen = g}

\* loop p resolves a message identifier in this step
Resolves(p) ==
    /\ loop'[p].pc \in {"lockwait", "hook"}
    /\ loop'[p].node # loop[p].node

C3_OneComputing ==
    \A id \in Ids : \A g \in 1..Len(heap[id]) :
        /\ Cardinality(Computing(id, g)) <= 1
        /\ \A p \in Computing(id, g) : heap[id][g].lock = p
        /\ heap[id][g].computed <= 1
        /\ heap[id][g].computed = 1 => heap[id][g].data # "none"

C3_SameNode ==
    \A p \in Loops : Resolves(p) =>
        LET id == loop'[p].node
        IN /\ loop'[p].gen = msg_nodes'[id]
           /\ msg_nodes[id] # 0 => msg_nodes'[id] = msg_nodes[id]

LowestIds(k) ==
    {id \in Keys(Cache) : Cardinality({j \in Keys(Cache) : j < id}) < k}

\* loop p finalizes and starts its sweep in this step with more than
\* MAX_MESSAGE_NODES nodes cached and no victim's guard held once p has released its own
SweepsUnhindered(p) ==
    /\ loop[p].pc = "after"
    /\ loop'[p].pc \in {"done", "sweepwait"}
    /\ Cardinality(Keys(Cache)) > MAX_MESSAGE_NODES
    /\ \A id \in LowestIds(Cardinality(Keys(Cache)) - MAX_MESSAGE_NODES) :
          LET n == heap[id][msg_nodes[id]]
          IN n.lock = 0 \/ (n.lock = p /\ n.waiters = <<>>)

C5_Step ==
    \A p \in Loops : SweepsUnhindered(p) =>
        LET V == LowestIds(Cardinality(Keys(Cache)) - MAX_MESSAGE_NODES)
        IN /\ loop'[p].pc = "done"
           /\ Cardinality(V) = Cardinality(Keys(Cache)) - MAX_MESSAGE_NODES
           /\ \A id \in Ids : msg_nodes'[id] = IF id \in V THEN 0 ELSE msg_nodes[id]
           /\ \A id \in Ids \ SeqToSet(loop[p].response_msgs) : heap'[id] = heap[id]

\* C5: a sweep that runs on n > MAX_MESSAGE_NODES cached nodes with no victim's guard
\* held removes exactly the n - MAX_MESSAGE_NODES lowest identifiers, without
\* suspending, and leaves every other cache entry and node as it was.
C5_SweepRemovesLowest == [][C5_Step]_vars

\* C5 witness: the only loop that ever ran has swept: a node that was created is
\* gone from the cache, which is back at its capacity
C5_Witness ==
    /\ loop[1].pc = "done"
    /\ \A p \in Loops \ {1} : loop[p].pc = "idle"
    /\ \E id \in Ids : heap[id] # <<>> /\ msg_nodes[id] = 0
    /\ Cardinality(Keys(Cache)) = MAX_MESSAGE_NODES

\* on_message invocation p has ended, by returning or by an exception
Ended(p) == loop[p].pc \in {"done", "crashed"}

\* the nodes whose guard loop p holds
Holds(p) == {n \in Ids \X (1..MaxGen) : n[2] <= Len(heap[n[1]]) /\ heap[n[1]][n[2]].lock = p}

\* C1: once an on_message invocation has ended, whichever way its stream ended
\* (normally, by raising, by a failed send), it holds no guard: every guard its
\* renderer acquired has been released.
C1_GuardsReleased == \A p \in Loops : Ended(p) => Holds(p) = {}

\* loop p is suspended until the guard of node n is free or handed to it
WaitsFor(p, n) ==
    \/ /\ loop[p].pc \in {"lockwait", "sweepwait"}
       /\ n = <<loop[p].node, loop[p].gen>>
       /\ heap[n[1]][n[2]].lock # p
    \/ /\ loop[p].pc = "spin"
       /\ n = <<loop[p].next, loop[p].ngen>>
       /\ heap[n[1]][n[2]].lock # 0

\* C6: a loop that waits for a guard holds no other guard, and the guard it waits
\* for is held by a loop that is still running (and so gets to release it): no
\* loop is blocked for ever.
C6_NoDeadlock ==
    \A p \in Loops : \A n \in Ids \X (1..MaxGen) :
        WaitsFor(p, n) => /\ Holds(p) = {}
                          /\ ~Ended(heap[n[1]][n[2]].lock)

\* loop p takes a step
Acts(p) == loop'[p] # loop[p]

C4_Step ==
    \A id \in Ids : (msg_nodes[id] # 0 /\ msg_nodes'[id] = 0) =>
        LET n == heap[id][msg_nodes[id]]
        IN n.lock = 0 \/ \E p \in Loops : Acts(p) /\ n.lock = p

\* C4: whenever a sweep removes a node from the cache, the node's guard is free or
\* held by the sweeping loop itself: a node whose guard another loop holds is never
\* removed.
C4_HeldNodeSurvives == [][C4_Step]_vars

\* the hooks called, in the order of the calls
Names(calls) == [k \in 1..Len(calls) |-> calls[k].hook]

\* C7: the fan-out at on_bot_ready and at after_llm_response calls the registered
\* hooks in registration order, each once, whatever the earlier ones did: the calls
\* made so far are the hooks before the awaited one, and when the fan-out is over
\* they are all the registered hooks.
C7_FanOutCallsEveryHook ==
    run.ext \in {"on_bot_ready", "after_llm_response"} =>
        /\ Names(run.calls) = SubSeq(plugin_hooks[run.ext], 1, Len(run.calls))
        /\ Len(run.calls) = IF run.pc = "hook" THEN run.i - 1
                            ELSE Len(plugin_hooks[run.ext])

\* C7 witness: the after_llm_response fan-out is over; its first hook raised and the
\* second was called all the same
C7_Witness ==
    /\ run.ext = "after_llm_response" /\ run.pc = "ended"
    /\ Len(run.calls) = 2
    /\ run.calls[1].out = "raise"

\* C8: when the on_message_received dispatch is over, every registered hook has been
\* called, also after one of them returned false.
C8_AllReceivedHooksCalled ==
    (run.ext = "on_message_received" /\ run.pc # "hook") =>
        Names(run.calls) = plugin_hooks["on_message_received"]

\* an on_message_received hook returned False for the message at hand
ReturnedFalse ==
    /\ run.ext = "on_message_received"
    /\ \E k \in 1..Len(run.calls) : run.calls[k].out = "false"

\* C9: once an on_message_received hook has returned false, on_message is over
\* without a command, a walk (no attachment hook), a model call or an after hook;
\* when on_message is over right after the on_message_received hooks and none
\* returned false (they returned none or another value, or raised), the message was
\* one the bot ignores or a command, and the command path was taken.
C9_FalseStopsProcessing ==
    /\ ReturnedFalse => run.pc = "ended" /\ run.did = {} /\ run.tried = <<>>
    /\ (run.pc = "ended" /\ run.ext = "on_message_received" /\ ~ReturnedFalse) =>
          /\ run.kind # "chat"
          /\ run.kind = "command" => run.did \cap {"command", "builtin"} # {}

\* C9 witness: a message the bot would answer, stopped by a hook that returned false
\* after an earlier hook raised
C9_Witness ==
    /\ run.pc = "ended" /\ run.kind = "chat" /\ run.did = {}
    /\ Len(run.calls) = 2
    /\ run.calls[1].out = "raise" /\ run.calls[2].out = "false"

\* the process_attachment calls made for attachment k
TriedFor(k) == SelectSeq(run.tried, LAMBDA c : c.att = k)

\* attachment k has been dealt with
Processed(k) ==
    \/ k < run.att
    \/ k <= run.natt /\ "walk" \in run.did /\ run.ext # "process_attachment"

\* C10: for every attachment the process_attachment hooks are tried in registration
\* order; no hook is tried after one that returned a non-empty result; and when the
\* attachment has been dealt with, either the last hook tried returned a non-empty
\* result or every registered hook was tried (none, an empty result or an exception
\* passes the attachment on to the next hook).
C10_FirstResultWins ==
    \A k \in 1..MaxAtt :
        LET T == TriedFor(k)
            hooks == plugin_hooks["process_attachment"]
        IN /\ Names(T) = SubSeq(hooks, 1, Len(T))
           /\ \A j \in 1..(Len(T) - 1) : T[j].out \notin {"caption", "image_data"}
           /\ Processed(k) =>
                 \/ Len(T) = Len(hooks)
                 \/ Len(T) > 0 /\ T[Len(T)].out \in {"caption", "image_data"}
           /\ k > run.att => T = <<>>

\* C10 witness: the first hook returned an empty result for the first attachment, the
\* second a caption, and the second attachment is at its first hook
C10_Witness ==
    /\ run.att = 2 /\ run.i = 1 /\ run.pc = "hook"
    /\ Len(run.tried) = 2
    /\ run.tried[1].out = "empty" /\ run.tried[2].out = "caption"

\* the list the claim has after the calls cs, starting from ms: a result that is
\* not none replaces the list, none or an exception keeps it
RECURSIVE ThreadNonNone(_, _)
ThreadNonNone(ms, cs) ==
    IF cs = <<>> THEN ms
    ELSE LET res == before_result(ms, cs[1].hook, cs[1].out)
         IN ThreadNonNone(IF res.none THEN ms ELSE res.list, Tail(cs))

\* C11: the list handed to the model call is the assembled list threaded through the
\* before_llm_call hooks in registration order: every result that is not none
\* replaces the working list, none or an exception leaves it as it was.
C11_ThreadedInOrder ==
    (run.pc = "model" /\ run.ext = "before_llm_call") =>
        /\ Names(run.calls) = plugin_hooks["before_llm_call"]
        /\ run.messages = ThreadNonNone(Assembled, run.calls)

\* what a hook of ext returns when it has nothing to say
NoneOut(ext) == IF ext \in {"on_bot_ready", "after_llm_response"} THEN "returned" ELSE "none"

\* the dispatch r without the outcomes recorded for its calls
Forget(r) == [r EXCEPT !.calls = Names(@), !.tried = Names(@)]

\* the command of the message at hand raised
CommandRaised ==
    run.invoked # <<>> /\ run.invoked[Len(run.invoked)].out = "raise"

\* C12: a hook that raises leaves the conversation loop where a hook that returned
\* none would have left it, and a command that raises leaves it where a command that
\* returned would have: on_message over, nothing else sent, no exception raised.
C12_RaiseIsNone ==
    /\ run.pc = "hook" =>
          Forget(Returned(run, "raise")) = Forget(Returned(run, NoneOut(run.ext)))
    /\ CommandRaised => run.pc = "ended" /\ run.did = {"command"} /\ run.err = "none"

\* a message that starts with "!" is past the on_message_received hooks, none of
\* which stopped it
AtCommands ==
    run.kind = "command" /\ ~ReturnedFalse /\ ~(run.pc = "hook")

\* the registered names equal, ignoring letter case, to the name the message holds
Matching ==
    IF run.words = <<>> THEN {}
    ELSE {n \in DOMAIN plugin_hooks["custom_commands"] : lower(n) = lower(run.words[1])}

\* C13: for a message that holds a name after the trigger character, when a command
\* is registered under a name equal to it ignoring case, that command is invoked
\* once, with the message and the author's id as a string, and the message has no
\* other command, no context build and no model call.
C13_CommandInvokedOnce ==
    (AtCommands /\ Matching # {}) =>
        /\ Len(run.invoked) = 1
        /\ run.invoked[1].name \in Matching
        /\ run.invoked[1].func = plugin_hooks["custom_commands"][run.invoked[1].name]
        /\ run.invoked[1].args = <<"new_msg", "str(author.id)">>
        /\ run.did \cap {"builtin", "walk", "model"} = {}
        /\ run.tried = <<>>

\* C14: a message that starts with the trigger character and names no registered
\* command, or holds no name at all, takes the built-in command path: no IndexError
\* or other error of the lookup, and no plugin command invoked.
C14_UnmatchedFallsThrough ==
    (AtCommands /\ Matching = {}) =>
        /\ run.err # "IndexError"
        /\ "builtin" \in run.did
        /\ run.invoked = <<>>

\* C15: a token stream whose text is one character longer than MAX_MESSAGE_LENGTH,
\* however it is cut into chunks, is rendered as two segments: the first
\* MAX_MESSAGE_LENGTH characters, then the one that remains.
C15_SplitAtLimit ==
    (run.pc = "rendered" /\ Len(join(run.tokens)) = MAX_MESSAGE_LENGTH + 1) =>
        run.response_contents =
            <<[k \in 1..MAX_MESSAGE_LENGTH |-> k], <<MAX_MESSAGE_LENGTH + 1>>>>

\* C16: the step that finalizes a reply whose stream finished gives every outbound
\* message of the reply, in the node registered for it, the data of the full response
\* (role assistant, content the concatenation of the segments).
C16_Step ==
    \A p \in Loops :
        (loop[p].pc = "after" /\ ~loop[p].failed /\ loop'[p].pc # "after") =>
            \A id \in SeqToSet(loop[p].response_msgs) :
                /\ msg_nodes[id] # 0
                /\ heap'[id][msg_nodes[id]].data = "final"
C16_ResponseNodesFinalized == [][C16_Step]_vars

\* C16 witness: a reply of two segments has been finalized and both nodes, still
\* cached, hold the full response
C16_Witness ==
    \E p \in Loops :
        /\ loop[p].pc = "done" /\ ~loop[p].failed
        /\ Len(loop[p].response_msgs) = 2
        /\ \A id \in SeqToSet(loop[p].response_msgs) :
              msg_nodes[id] # 0 /\ heap[id][msg_nodes[id]].data = "final"

\* C17: a reply whose model call, stream or send raised is followed by exactly one
\* failure notice, with the outbound messages it had left as they were; a reply whose
\* stream came to its end is followed by none.
C17_OneFailureNotice ==
    \A p \in Loops :
        /\ (loop[p].failed /\ loop[p].pc \in {"after", "sweepwait", "done"}) =>
              loop[p].notices = 1
        /\ ~loop[p].failed => loop[p].notices = 0

\* the turns of the chain that are not empty, the most recent first
NonEmptyTurns ==
    SelectSeq([k \in 1..Len(run.chain) |->
                  [id |-> k, text |-> slice(run.chain[k].text, MAX_TEXT),
                   images |-> IF run.chain[k].img THEN 1 ELSE 0]],
              LAMBDA t : t.text # <<>> \/ t.images > 0)

\* the turns of a message list that come from messages of the chain
ChainTurns(ms) == SelectSeq(ms, LAMBDA t : t.id # 0)

\* C18: when the chain holds more than MAX_MESSAGES non-empty turns, the assembled
\* context holds the MAX_MESSAGES most recent of them, the oldest first.
C18_MostRecentTurns ==
    (run.pc = "assembled" /\ Len(NonEmptyTurns) > MAX_MESSAGES) =>
        ChainTurns(run.messages) = Reverse(SubSeq(NonEmptyTurns, 1, MAX_MESSAGES))

\* C19: no turn of the list llmcord.py assembles for the model call has empty
\* content (an empty text and no image part).
C19_NoEmptyTurn ==
    (run.pc = "assembled" /\ run.variant # "ollama") =>
        \A k \in 1..Len(run.messages) :
            run.messages[k].text # <<>> \/ run.messages[k].images > 0

\* C19 witness: a reply to an empty message: the list holds the system prompt and
\* the turn of the start message, the empty turn was dropped
C19_Witness ==
    /\ run.pc = "assembled" /\ run.variant = "reply"
    /\ Len(run.chain) = 2
    /\ run.chain[2].text = <<>> /\ ~run.chain[2].img
    /\ 2 \in DOMAIN run.nodes
    /\ Len(run.messages) = 2 /\ run.messages[2].id = 1

\* C20: a normalized message whose text is longer than MAX_TEXT has for the text of
\* its turn the first MAX_TEXT characters and its flag set; any other has its text
\* unchanged and the flag unset.
C20_TruncatedAtMaxText ==
    \A k \in DOMAIN run.nodes :
        LET text == run.chain[k].text
            node == run.nodes[k]
        IN IF Len(text) > MAX_TEXT
           THEN /\ Len(node.data.text) = MAX_TEXT
                /\ node.data.text = SubSeq(text, 1, MAX_TEXT)
                /\ node.too_much_text
           ELSE /\ node.data.text = text
                /\ ~node.too_much_text

\* C20 witness: of the messages normalized so far one had too long a text, one a
\* text of exactly MAX_TEXT characters
C20_Witness ==
    /\ \E k \in DOMAIN run.nodes : Len(run.chain[k].text) > MAX_TEXT
    /\ \E k \in DOMAIN run.nodes : Len(run.chain[k].text) = MAX_TEXT

\* sub is a substring of text
Contains(text, sub) ==
    \E k \in 0..(Len(text) - Len(sub)) : SubSeq(text, k + 1, k + Len(sub)) = sub

\* a process_attachment hook claimed an attachment of the message with a caption
CaptionClaimed ==
    \E k \in 1..Len(run.outs) : run.outs[k] \in {"caption", "both"}

\* C21 as stated: the text of the turn of a message of which a hook claimed an image
\* with a caption holds the bracketed caption, with or without an image part; and
\* for a model that does not accept images the turn has no image part.
C21_CaptionInText ==
    (run.pc = "normalized" /\ run.variant = "llmcord") =>
        /\ CaptionClaimed => Contains(run.data.text, Caption)
        /\ ~run.accepts => run.data.images = 0

\* C21 amended: the bracketed caption is in the joined text before the cut at
\* MAX_TEXT, with or without an image part, hence in the text of the turn whenever
\* the joined text has at most MAX_TEXT characters; and for a model that does not
\* accept images the turn has no image part.
C21_CaptionBeforeCut ==
    (run.pc = "normalized" /\ run.variant = "llmcord") =>
        /\ CaptionClaimed =>
              /\ Contains(run.text, Caption)
              /\ Len(run.text) <= MAX_TEXT => Contains(run.data.text, Caption)
        /\ ~run.accepts => run.data.images = 0

\* C21 witness: a hook returned a caption and image_data for the one image of a
\* message without text: the turn has the caption and an image part
C21_Witness ==
    /\ run.pc = "normalized" /\ run.variant = "llmcord" /\ run.accepts
    /\ run.outs = <<"both">>
    /\ run.data.images = 1
    /\ run.data.text = Caption

\* C22: the turn of a message that begins with the mention token followed by text
\* (and has no image part) has role user and for content that text, without the
\* mention token.
C22_MentionStripped ==
    (/\ run.pc = "normalized" /\ run.msg.mention /\ run.msg.body > 0
     /\ run.data.images = 0 /\ ~CaptionClaimed /\ ~run.too_much_text) =>
        /\ run.data.role = "user"
        /\ run.data.text = [k \in 1..run.msg.body |-> k]

\* C23: at every point of rendering the segments, joined in order, are the chunks
\* received so far, joined in arrival order; the text the renderer returns is the
\* whole stream.
C23_NothingLost ==
    /\ run.pc \in {"render", "rendered"} =>
          join(run.response_contents) \o join(run.stream) = join(run.tokens)
    /\ run.pc = "rendered" => run.full_response = join(run.tokens)

\* C23 witness: a stream of three chunks rendered as two segments
C23_Witness ==
    /\ run.pc = "rendered"
    /\ Len(run.tokens) = 3 /\ run.tokens[3] # <<>>
    /\ Len(run.response_contents) = 2
    /\ run.full_response = join(run.tokens)

\* C24: no segment is ever longer than MAX_MESSAGE_LENGTH, whatever the stream.
C24_SegmentsBounded ==
    run.pc \in {"render", "rendered"} =>
        \A k \in 1..Len(run.response_contents) :
            Len(run.response_contents[k]) <= MAX_MESSAGE_LENGTH

\* C25: when the reply is rendered and no edit is in flight any more, every segment
\* that was closed by a split is shown in full by its outbound message.
C25_ClosedSegmentShown ==
    (run.pc = "rendered" /\ run.pending = {}) =>
        \A k \in 1..(Len(run.response_contents) - 1) :
            run.shown[k].text = run.response_contents[k]

\* a step that pushes an edit
C26_Step ==
    run'.edits > run.edits =>
        \/ run.pc = "waitedit" /\ run.finish
        \/ run.pc = "render" /\ Tail(run.stream) = <<>>
        \/ /\ run.pc = "render" /\ run.response_contents # <<>>
           /\ run.pending = {}
           /\ run.now - run.last_task_time >= EDIT_DELAY_SECONDS

\* the text of the last segment has been pushed once the stream has finished
C26_FinalPushed ==
    (run.pc = "rendered" /\ run.tokens # <<>> /\ run.pending = {}) =>
        LET last == Len(run.response_contents)
        IN run.shown[last] = [text |-> run.response_contents[last], final |-> TRUE]

\* C26: before the last chunk an edit is pushed only when no edit is in flight and
\* EDIT_DELAY_SECONDS have passed since the last push (or the send of the first
\* message); with the last chunk the text is pushed whatever the throttle says; and
\* never are two edits in flight.
C26_Throttle ==
    /\ [](run.pc \in {"render", "waitedit", "rendered"} =>
             Cardinality(run.pending) <= 1 /\ C26_FinalPushed)
    /\ [][C26_Step]_vars

\* C26 witness: an edit was pushed a second after the first message was sent, and
\* the last chunk finds it still in flight: the renderer waits for it
C26_Witness ==
    /\ run.pc = "waitedit" /\ run.finish
    /\ run.edits = 1 /\ Cardinality(run.pending) = 1
    /\ run.last_task_time = 1

\* C27: a chain walk visits at most max_turns messages behind the start message;
\* a message whose turn is empty is left out of the list and still counts, so
\* every walk is over after at most MAX_MESSAGES hops.
C27_WalkBounded ==
    Cardinality(DOMAIN run.nodes \ {1}) <= MAX_MESSAGES

\* C28: when the fetch of a predecessor fails during a chain walk, the walk does not
\* raise: fetch_next_failed is set on the node of the message from which the fetch
\* was attempted, the walk stops there, and the handler goes on to the model call
\* with the turns collected so far.
C28_FetchFailStep ==
    \A p \in Loops :
        FetchFail(p) =>
            LET id == loop[p].current_msg
            IN /\ loop'[p].mode = "curr" /\ ~loop'[p].failed
               /\ loop'[p].pc \in {"lockwait", "hook", "stream"}
               /\ msg_nodes'[id] # 0
               /\ heap'[id][msg_nodes'[id]].fetch_next_failed

C28_FetchFailFlagged == [][C28_FetchFailStep]_vars

\* C29: behind a start message that is not a reply, the scan takes the preceding
\* messages newest first and stops at the first message of another author, at the
\* first message older than 300 s, or after MAX_MESSAGES messages: every message
\* it normalizes is among the first MAX_MESSAGES, and it and all the messages
\* between it and the start message are recent and by the author of the start
\* message.
C29_ScanStops ==
    \A k \in run.scanned :
        /\ k <= MAX_MESSAGES
        /\ \A j \in 1..k : run.prev[j].author = Sender /\ ~run.prev[j].old

\* C30: in the message list handed to the before_llm_call hooks and the model of
\* llmcord.py the system prompt is first, the turns of the chain follow oldest
\* first, and the turn of the start message, when it is not empty, is the last
\* element, whatever the length of the chain.
C30_StartTurnLast ==
    run.pc = "assembled" /\ run.variant \in {"reply", "history"} =>
        /\ run.messages[1] = System
        /\ \A j \in 2..Len(run.messages), k \in 2..Len(run.messages) :
              j < k => run.messages[j].id > run.messages[k].id
        /\ has_content(run.nodes[1].data) =>
              run.messages[Len(run.messages)] = run.nodes[1].data

\* C31: in each of the three normalizing paths of llmcord.py, when the model accepts
\* images, an image attachment that no process_attachment hook claimed gives exactly
\* one image part, whatever the number of hooks registered.
C31_OneImagePart ==
    run.pc = "normalized" /\ run.accepts =>
        \A k \in 1..Len(run.parts) :
            ~run.parts[k].claimed => run.parts[k].images = 1

C33_PeriodicExact ==
    \A p \in Arrivals :
        run.msg[p].pc = "triggered" =>
            (run.msg[p].random_response <=> run.msg[p].at % SPEAK_EVERY_TURNS = 0)

\* C34: the dispatch of an extension point always completes: whenever a hook is
\* awaited, also one that never returns, the loop over the hooks is eventually left
\* and the stages after it are reached.
C34_DispatchCompletes ==
    (run.pc \in {"hook", "hung"}) ~> (run.pc \notin {"hook", "hung"})

\* C35: whenever no on_message invocation is in progress (the "!converse" ones
\* included), msg_nodes holds at most MAX_MESSAGE_NODES entries.
C35_CacheBoundedAtRest ==
    (\A c \in Convs : run.conv[c].pc \in {"idle", "done", "crashed"}) =>
        Cardinality(Keys(Cache)) <= MAX_MESSAGE_NODES

\* C36: the sweeps of concurrent conversation loops never fail: when a sweep is
\* handed the guard of the victim it waited for, the victim's identifier is still in
\* the cache (the delete raises no KeyError) and the node under it is the node the
\* sweep waited for, not one inserted since; and no sweep ends in an exception.
C36_SweepsNeverFail ==
    \A p \in Loops :
        /\ (loop[p].pc = "sweepwait" /\ heap[loop[p].node][loop[p].gen].lock = p) =>
              msg_nodes[loop[p].node] = loop[p].gen
        /\ ~(loop[p].pc = "crashed" /\ loop[p].victims # <<>>)

\* C37: in llmcord-studpo.py, as in the other entry points, the finalization never
\* fails and the eviction sweep after it is always reached: an on_message
\* invocation that set out to answer a message and whose sends did not fail does
\* not end in an exception before its sweep.
C37_SweepAlwaysReached ==
    \A p \in Loops : ~(loop[p].pc = "crashed" /\ ~loop[p].failed)

\* C38: a bot conversation started by "!converse N" performs at most N exchanges,
\* also when another "!converse" is accepted while it runs, and once no bot
\* conversation is running converse_state is inactive with no exchanges left and
\* no channel.
C38_AtMostNExchanges ==
    /\ \A c \in Convs : run.conv[c].made <= run.conv[c].exchanges
    /\ (\A c \in Convs : run.conv[c].pc \in {"idle", "done", "crashed"}) =>
          run.converse_state = Inactive

\* C39: a message whose text starts with "!new" passes trigger detection and
\* reaches the model call: unless an on_message_received hook stopped it, on_message
\* does not end for such a message without having called the model.
C39_NewReachesModel ==
    (/\ run.words # <<>> /\ run.words[1] = "new"
     /\ run.pc = "ended"
     /\ \A k \in 1..Len(run.calls) : run.calls[k].out # "false") =>
        "model" \in run.did

\* C40: after any interleaving of concurrent add_short_term calls for one user no
\* update is lost: when no call is in progress the user's memory counts as many
\* messages as calls have completed and its short_term holds the most recent
\* min(calls, MAX_SHORT_TERM_MESSAGES) entries, never more.
C40_NoLostUpdate ==
    (\A p \in Calls : run.call[p].pc \in {"idle", "done"}) =>
        LET n == Len(run.order)
            kept == IF n > MAX_SHORT_TERM_MESSAGES THEN MAX_SHORT_TERM_MESSAGES ELSE n
        IN /\ current_memory.total_messages = n
           /\ current_memory.short_term = SubSeq(run.order, n - kept + 1, n)
           /\ Len(current_memory.short_term) <= MAX_SHORT_TERM_MESSAGES


====
